---- MODULE Spec2Model ----
(***************************************************************************)
(* Trip Planner API: the cache-aside search service (findTrips), and the   *)
(* trip manager (saveTrip, listTrips, deleteTrip) over Redis and the Trip  *)
(* table.  Every awaited I/O call of the services is one atomic step; the  *)
(* calls of different requests interleave at those steps (Node's           *)
(* single-threaded cooperative scheduling).  A rejected Redis or Prisma    *)
(* command is modelled as not executed.                                    *)
(***************************************************************************)
EXTENDS Integers, Sequences, FiniteSets, TLC

(***************************************************************************)
(* Bounds of the model.                                                    *)
(***************************************************************************)
\* config.tripsMaxRetry ranges over 0..MaxRetryCfg
MaxRetryCfg == 3
\* findTrips calls of one behaviour of SearchSpec
SearchCalls == 2
\* findTrips calls of one behaviour of SearchFairSpec
FairCalls == 1
\* I/O failures and key expiries of one behaviour of SearchSpec
SearchFaults == 3
\* service calls of one behaviour of Spec
NumCalls == 2
\* I/O failures and key expiries of one behaviour of Spec
MaxFaults == 1
\* longest string the key builders are applied to in HelperSpec
MaxStrLen == 2
\* getTrips calls of one behaviour of GetTripsSpec
GetCalls == 2
\* I/O failures and key expiries of one behaviour of GetTripsSpec
GetFaults == 1

(***************************************************************************)
(* Strings that take part in cache keys are sequences of characters, so    *)
(* that concatenation and glob matching are computed, not assumed.         *)
(***************************************************************************)
ATL == <<"A", "T", "L">>
PEK == <<"P", "E", "K">>

SUPPORTED_AIRPORTS ==
    {
     <<"A", "T", "L">>, <<"P", "E", "K">>, <<"L", "A", "X">>, <<"D", "X", "B">>,
     <<"H", "N", "D">>, <<"O", "R", "D">>, <<"L", "H", "R">>, <<"P", "V", "G">>,
     <<"C", "D", "G">>, <<"D", "F", "W">>, <<"A", "M", "S">>, <<"F", "R", "A">>,
     <<"I", "S", "T">>, <<"C", "A", "N">>, <<"J", "F", "K">>, <<"S", "I", "N">>,
     <<"D", "E", "N">>, <<"I", "C", "N">>, <<"B", "K", "K">>, <<"S", "F", "O">>,
     <<"L", "A", "S">>, <<"C", "L", "T">>, <<"M", "I", "A">>, <<"K", "U", "L">>,
     <<"S", "E", "A">>, <<"M", "U", "C">>, <<"E", "W", "R">>, <<"M", "A", "D">>,
     <<"H", "K", "G">>, <<"M", "C", "O">>, <<"P", "H", "X">>, <<"I", "A", "H">>,
     <<"S", "Y", "D">>, <<"M", "E", "L">>, <<"G", "R", "U">>, <<"Y", "Y", "Z">>,
     <<"L", "G", "W">>, <<"B", "C", "N">>, <<"M", "A", "N">>, <<"B", "O", "M">>,
     <<"D", "E", "L">>, <<"Z", "R", "H">>, <<"S", "V", "O">>, <<"D", "M", "E">>,
     <<"J", "N", "B">>, <<"A", "R", "N">>, <<"O", "S", "L">>, <<"C", "P", "H">>,
     <<"H", "E", "L">>, <<"V", "I", "E">>}

\* the (origin, destination) pairs the calls are made with
Routes == {<<ATL, PEK>>}

\* the argument lists listTrips is called with: none, or limit and offset
ListArgs == {<<>>, <<1, 1>>}

\* `listTrips(limit = 20, offset = 0)`: the parameters of an argument list
ListParams(args) ==
    <<IF Len(args) >= 1 THEN args[1] ELSE 20,
      IF Len(args) >= 2 THEN args[2] ELSE 0>>

Digit(n) == CASE n = 0 -> "0" [] n = 1 -> "1" [] n = 2 -> "2" [] n = 3 -> "3"
              [] n = 4 -> "4" [] n = 5 -> "5" [] n = 6 -> "6" [] n = 7 -> "7"
              [] n = 8 -> "8" [] n = 9 -> "9"

\* `${n}` of a non-negative integer
RECURSIVE NumToStr(_)
NumToStr(n) == IF n < 10 THEN <<Digit(n)>>
               ELSE NumToStr(n \div 10) \o <<Digit(n % 10)>>

LowerLetters ==
    <<"a", "b", "c", "d", "e", "f", "g", "h", "i", "j", "k", "l", "m",
      "n", "o", "p", "q", "r", "s", "t", "u", "v", "w", "x", "y", "z">>

UpperLetters ==
    <<"A", "B", "C", "D", "E", "F", "G", "H", "I", "J", "K", "L", "M",
      "N", "O", "P", "Q", "R", "S", "T", "U", "V", "W", "X", "Y", "Z">>

\* String.prototype.toUpperCase on the characters of the model: a lower-case
\* letter becomes its capital, every other character stays
toUpperCase(s) ==
    [i \in 1..Len(s) |->
        IF \E j \in 1..26 : LowerLetters[j] = s[i]
        THEN UpperLetters[CHOOSE j \in 1..26 : LowerLetters[j] = s[i]]
        ELSE s[i]]

\* variant without the separator between origin and destination
buildSearchCacheKey_NoSeparator(origin, destination) ==
    <<"t", "r", "i", "p", "s", ":">> \o origin \o destination

\* variant that normalises the case of its arguments
buildSearchCacheKey_UpperCased(origin, destination) ==
    <<"t", "r", "i", "p", "s", ":">> \o toUpperCase(origin) \o <<":">>
        \o toUpperCase(destination)

\* `trips:${origin}:${destination}`
buildSearchCacheKey(origin, destination) ==
    <<"t", "r", "i", "p", "s", ":">> \o origin \o <<":">> \o destination

CACHE_KEY_TRIPS == <<"t", "r", "i", "p", "s", ":", "s", "a", "v", "e", "d">>

\* `${CACHE_KEY_TRIPS}:${limit}:${offset}`
ListCacheKey(limit, offset) ==
    CACHE_KEY_TRIPS \o <<":">> \o NumToStr(limit) \o <<":">> \o NumToStr(offset)

\* variant whose pattern is trips:*
InvalidationPattern_AllTrips == <<"t", "r", "i", "p", "s", ":", "*">>

\* `${CACHE_KEY_TRIPS}*`
InvalidationPattern == CACHE_KEY_TRIPS \o <<"*">>

\* Redis glob matching, for patterns of literal characters and '*'
RECURSIVE Glob(_, _)
Glob(pattern, key) ==
    IF pattern = <<>> THEN key = <<>>
    ELSE IF Head(pattern) = "*"
         THEN Glob(Tail(pattern), key) \/ (key # <<>> /\ Glob(pattern, Tail(key)))
         ELSE key # <<>> /\ Head(key) = Head(pattern) /\ Glob(Tail(pattern), Tail(key))

\* variant that compares the code as it is given
isSupportedAirport_CaseSensitive(code) == code \in SUPPORTED_AIRPORTS

\* SUPPORTED_AIRPORTS.includes(code.toUpperCase())
isSupportedAirport(code) == toUpperCase(code) \in SUPPORTED_AIRPORTS

(***************************************************************************)
(* Configuration.                                                          *)
(***************************************************************************)
cacheTTL == 300
baseDelay == 300

(***************************************************************************)
(* Trips.  The upstream answers a search with one of UpstreamArrays.       *)
(***************************************************************************)
\* the upstream is not bound to echo the codes it was asked for: T1 is listed
\* under another destination than the one of the calls
T1 == [id |-> "t1", origin |-> ATL, destination |-> <<"L", "A", "X">>,
       cost |-> 100, duration |-> 120, type |-> "flight", display_name |-> "one"]
T2 == [id |-> "t2", origin |-> ATL, destination |-> PEK, cost |-> 80,
       duration |-> 200, type |-> "train", display_name |-> "two"]

T3 == [id |-> "t3", origin |-> ATL, destination |-> PEK, cost |-> 100,
       duration |-> 200, type |-> "car", display_name |-> "three"]

UpstreamArrays == {<<>>, <<T2>>, <<T2, T1>>}
\* the ids saveTrip and deleteTrip are called with
TripIds == {"t1"}

(***************************************************************************)
(* JSON.  A text is [json |-> array]; a Date ([date |-> t]) is written as  *)
(* its ISO string ([iso |-> t]) and is read back as that string; a string  *)
(* is written as it is.                                                    *)
(***************************************************************************)
StringifyTrip(t) ==
    IF "created_at" \in DOMAIN t /\ "date" \in DOMAIN t.created_at
    THEN [t EXCEPT !.created_at = [iso |-> @.date]]
    ELSE t

JSONStringify(arr) == [json |-> [i \in 1..Len(arr) |-> StringifyTrip(arr[i])]]

JSONParse(text) == text.json

VARIABLES
    tripsMaxRetry,  \* config.tripsMaxRetry
    redis,          \* the Redis keyspace: key -> [value, ex, ver]
    db,             \* the Trip table: a set of rows
    now,            \* CURRENT_TIMESTAMP of the next insert
    commits,        \* history: number of committed inserts and deletes
    calls,          \* the service calls: position, arguments, locals, history
    faults,         \* number of I/O failures and expiries that may still occur
    expiries        \* history: number of keys that have expired

vars == <<tripsMaxRetry, redis, db, now, commits, calls, faults, expiries>>

(***************************************************************************)
(* Redis commands.                                                         *)
(***************************************************************************)
\* GET: <<>> for nil, <<text>> for a string
RedisGet(r, key) == IF key \in DOMAIN r THEN <<r[key].value>> ELSE <<>>

\* SET key value EX ttl (ver: history, the commit count the value was read at)
RedisSet(r, key, text, ttl, ver) ==
    [k \in DOMAIN r \cup {key} |->
        IF k = key THEN [value |-> text, ex |-> ttl, ver |-> ver] ELSE r[k]]

RedisKeys(r, pattern) == {k \in DOMAIN r : Glob(pattern, k)}

RedisDel(r, ks) == [k \in DOMAIN r \ ks |-> r[k]]

\* variant that takes the text of the empty array for a miss
Truthy_EmptyArrayIsFalsy(cached) ==
    cached # <<>> /\ JSONParse(cached[1]) # <<>>

\* `if (cached)`: nil is falsy; JSON.stringify never yields the empty string
Truthy(cached) == cached # <<>>

(***************************************************************************)
(* Prisma operations on the Trip table.                                    *)
(***************************************************************************)
FindUnique(table, id) == {row \in table : row.id = id}

\* variant that orders by created_at ascending
RECURSIVE OrderByCreatedAtDesc_Ascending(_)
OrderByCreatedAtDesc_Ascending(rows) ==
    IF rows = {} THEN <<>>
    ELSE LET oldest == CHOOSE r \in rows :
                           \A q \in rows : r.created_at.date <= q.created_at.date
         IN  <<oldest>> \o OrderByCreatedAtDesc_Ascending(rows \ {oldest})

RECURSIVE OrderByCreatedAtDesc(_)
OrderByCreatedAtDesc(rows) ==
    IF rows = {} THEN <<>>
    ELSE LET newest == CHOOSE r \in rows :
                           \A q \in rows : q.created_at.date <= r.created_at.date
         IN  <<newest>> \o OrderByCreatedAtDesc(rows \ {newest})

FindMany(table, take, skip) ==
    LET ordered == OrderByCreatedAtDesc(table)
        last == IF skip + take < Len(ordered) THEN skip + take ELSE Len(ordered)
    IN  SubSeq(ordered, skip + 1, last)

\* the row prisma.trip.create inserts: the data fields and created_at
CreatedRow(trip, t) ==
    [id |-> trip.id, origin |-> trip.origin, destination |-> trip.destination,
     cost |-> trip.cost, duration |-> trip.duration, type |-> trip.type,
     display_name |-> trip.display_name, created_at |-> [date |-> t]]

(***************************************************************************)
(* Calls.                                                                  *)
(***************************************************************************)
Pending == [kind |-> "pending", value |-> <<>>, code |-> "", status |-> 0]

IdleCall ==
    [op |-> "idle", pc |-> "idle",
     id |-> "", origin |-> <<>>, destination |-> <<>>, limit |-> 0, offset |-> 0,
     attempt |-> 0, err |-> "", data |-> <<>>, trip |-> <<>>, keys |-> {},
     sortParam |-> "", url |-> <<>>,
     result |-> Pending,
     \* history of the call
     args |-> <<>>,         \* the arguments the call was made with
     overlap |-> FALSE,     \* another call was in flight when the call began
     ft |-> Pending,        \* how the call's findTrips ended
     coldStart |-> FALSE,   \* the cache read of the call was a miss
     cached |-> <<>>,       \* what the cache read returned on a hit
     fetches |-> <<>>,      \* each upstream call, in order: "ok" or "failed"
     waits |-> <<>>,        \* the backoff delays, in order
     sets |-> 0,            \* cache writes that succeeded
     cacheFail |-> <<>>,    \* the Redis commands of the call that were rejected
     committed |-> 0,       \* commit number of the call's insert, delete or read
     enumerated |-> FALSE,  \* redis.keys answered
     delArgs |-> {}]        \* the keys redis.del was called with

Ok(c, value) ==
    [c EXCEPT !.pc = "done",
              !.result = [kind |-> "ok", value |-> value, code |-> "", status |-> 200]]

\* throw new AppError(message, status, code); a raw Error has code "Error"
Throw(c, code, status) ==
    [c EXCEPT !.pc = "done",
              !.result = [kind |-> "error", value |-> <<>>, code |-> code,
                          status |-> status]]

Key(c) == buildSearchCacheKey(c.origin, c.destination)

\* a Redis command of the call is rejected
Rejected(c, command) == [c EXCEPT !.cacheFail = Append(@, command)]

(***************************************************************************)
(* SearchTripsService.findTrips, called by a request or by saveTrip.       *)
(***************************************************************************)
\* variant that takes the first trip of a lookup result that is not empty
SaveTripMatch_FirstOfAny(c, trips) ==
    IF trips = <<>> THEN Throw(c, "TRIP_NOT_FOUND", 404)
    ELSE [c EXCEPT !.pc = "sv_findUnique", !.trip = <<trips[1]>>]

\* variant that takes the route of the caller for the trip found
SaveTripMatch_RouteOfCaller(c, trips) ==
    LET idx == {i \in 1..Len(trips) : trips[i].id = c.id}
    IN  IF idx = {} THEN Throw(c, "TRIP_NOT_FOUND", 404)
        ELSE [c EXCEPT !.pc = "sv_findUnique",
                       !.trip = <<[trips[CHOOSE i \in idx : \A j \in idx : i <= j]
                                      EXCEPT !.origin = c.origin,
                                             !.destination = c.destination]>>]

\* saveTrip after `await findTrips`: trips.find by id, TRIP_NOT_FOUND if none
SaveTripMatch(c, trips) ==
    LET idx == {i \in 1..Len(trips) : trips[i].id = c.id}
    IN  IF idx = {} THEN Throw(c, "TRIP_NOT_FOUND", 404)
        ELSE [c EXCEPT !.pc = "sv_findUnique",
                       !.trip = <<trips[CHOOSE i \in idx : \A j \in idx : i <= j]>>]

\* variant of the comparator without the secondary field
Compare_NoTieBreak(a, b, sortBy) ==
    IF sortBy = "fastest" THEN a.duration - b.duration ELSE a.cost - b.cost

\* the comparator of sortTrips
Compare(a, b, sortBy) ==
    LET primary == IF sortBy = "fastest" THEN a.duration - b.duration
                   ELSE a.cost - b.cost
    IN  IF primary = 0
        THEN IF sortBy = "fastest" THEN a.cost - b.cost
             ELSE a.duration - b.duration
        ELSE primary

\* Array.prototype.sort, which is stable: each element goes behind the
\* elements before it that do not compare greater
RECURSIVE ArraySort(_, _)
ArraySort(arr, sortBy) ==
    IF arr = <<>> THEN <<>>
    ELSE LET n == Len(arr)
             rest == ArraySort(SubSeq(arr, 1, n - 1), sortBy)
             k == Cardinality({i \in 1..(n - 1) :
                                  Compare(rest[i], arr[n], sortBy) <= 0})
         IN  SubSeq(rest, 1, k) \o <<arr[n]>> \o SubSeq(rest, k + 1, n - 1)

\* `[...trips].sort(...)`
sortTrips(trips, sortBy) == ArraySort(trips, sortBy)

\* getTrips after `await findTrips`: `return this.sortTrips(trips, sortParam)`
GetTripsReturn(c, trips) == Ok(c, sortTrips(trips, c.sortParam))

\* findTrips returns data: to the request, into saveTrip or into getTrips
FindTripsReturn(c, data) ==
    LET d == [c EXCEPT !.ft = [kind |-> "ok", value |-> data, code |-> "",
                               status |-> 200]]
    IN  IF c.op = "saveTrip" THEN SaveTripMatch(d, data)
        ELSE IF c.op = "getTrips" THEN GetTripsReturn(d, data)
        ELSE Ok(d, data)

\* findTrips throws; saveTrip does not catch it
FindTripsThrow(c, code, status) ==
    Throw([c EXCEPT !.ft = [kind |-> "error", value |-> <<>>, code |-> code,
                            status |-> status]], code, status)

\* variant whose loop test is `attempt < maxRetries`
RetryLoop_StrictBound(c, attempt) ==
    IF attempt < tripsMaxRetry
    THEN [c EXCEPT !.pc = "ft_fetch", !.attempt = attempt]
    ELSE FindTripsThrow(c, "UNEXPECTED_ERROR", 500)

\* the test of the retry loop, and the statement behind the loop
RetryLoop(c, attempt) ==
    IF attempt <= tripsMaxRetry
    THEN [c EXCEPT !.pc = "ft_fetch", !.attempt = attempt]
    ELSE FindTripsThrow(c, "UNEXPECTED_ERROR", 500)

\* variant of the catch block that passes the AppError of a status on
RetryCatch_RethrowsFetchError(c) ==
    IF c.err = "FETCH_ERROR" THEN FindTripsThrow(c, "FETCH_ERROR", 502)
    ELSE IF c.attempt = tripsMaxRetry
    THEN FindTripsThrow(c, "FETCH_RETRY_FAILED", 502)
    ELSE [c EXCEPT !.pc = "ft_wait", !.waits = Append(@, baseDelay * c.attempt)]

\* variant of the catch block without the test for the last attempt
RetryCatch_AlwaysWaits(c) ==
    [c EXCEPT !.pc = "ft_wait", !.waits = Append(@, baseDelay * c.attempt)]

\* the catch block of the retry loop
RetryCatch(c) ==
    IF c.attempt = tripsMaxRetry
    THEN FindTripsThrow(c, "FETCH_RETRY_FAILED", 502)
    ELSE [c EXCEPT !.pc = "ft_wait", !.waits = Append(@, baseDelay * c.attempt)]

\* variant that passes the sort order of the request on to the upstream
FindTripsUrl_SortOfRequest(c) ==
    [origin |-> c.origin, destination |-> c.destination,
     sort_by |-> IF c.sortParam = "" THEN "fastest" ELSE c.sortParam]

\* the search parameters of the upstream URL; `const sortBy = 'fastest'`
FindTripsUrl(c) ==
    [origin |-> c.origin, destination |-> c.destination, sort_by |-> "fastest"]

\* variant of the cache test that never returns early
FindTripsCached_NoEarlyReturn(c, cached) ==
    RetryLoop([c EXCEPT !.coldStart = ~Truthy(cached), !.url = FindTripsUrl(c)], 1)

\* what findTrips does with the answer of redis.get
FindTripsCached(c, cached) ==
    IF Truthy(cached)
    THEN FindTripsReturn([c EXCEPT !.cached = cached], JSONParse(cached[1]))
    ELSE RetryLoop([c EXCEPT !.coldStart = TRUE, !.url = FindTripsUrl(c)], 1)

\* `await redis.get(cacheKey)`, the first step of findTrips; a rejected get
\* propagates as it is
FindTripsGet(p, c) ==
    /\ \/ /\ faults > 0
          /\ faults' = faults - 1
          /\ calls' = [calls EXCEPT ![p] =
                          FindTripsThrow(Rejected(c, "get"), "Error", 0)]
       \/ /\ calls' = [calls EXCEPT ![p] =
                          FindTripsCached(c, RedisGet(redis, Key(c)))]
          /\ UNCHANGED faults
    /\ UNCHANGED <<tripsMaxRetry, redis, db, now, commits, expiries>>

\* `await fetch(url, ...)`, `result.ok`, `await result.json()`; fetch rejects
\* (a raw Error) or answers a status that is not ok (AppError FETCH_ERROR)
FindTripsFetch(p) ==
    LET c == calls[p] IN
    /\ c.pc = "ft_fetch"
    /\ \/ /\ faults > 0
          /\ faults' = faults - 1
          /\ \E failure \in {"Error", "FETCH_ERROR"} :
                calls' = [calls EXCEPT ![p] =
                             RetryCatch([c EXCEPT !.fetches = Append(@, "failed"),
                                                  !.err = failure])]
       \/ /\ \E data \in UpstreamArrays :
                calls' = [calls EXCEPT ![p] =
                             [c EXCEPT !.fetches = Append(@, "ok"),
                                       !.data = data, !.pc = "ft_set"]]
          /\ UNCHANGED faults
    /\ UNCHANGED <<tripsMaxRetry, redis, db, now, commits, expiries>>

\* variant that keeps an entry that is already there (SET ... NX)
FindTripsWrite_IfAbsent(r, c) ==
    IF Key(c) \in DOMAIN r THEN r
    ELSE RedisSet(r, Key(c), JSONStringify(c.data), cacheTTL, 0)

\* the keyspace after the cache write of findTrips
FindTripsWrite(r, c) ==
    RedisSet(r, Key(c), JSONStringify(c.data), cacheTTL, 0)

\* variant that rejects an empty answer once it is written
FindTripsStored_ThrowsOnEmpty(c) ==
    IF c.data = <<>>
    THEN FindTripsThrow([c EXCEPT !.sets = @ + 1], "FETCH_RETRY_FAILED", 502)
    ELSE FindTripsReturn([c EXCEPT !.sets = @ + 1], c.data)

\* `return data` behind the cache write
FindTripsStored(c) == FindTripsReturn([c EXCEPT !.sets = @ + 1], c.data)

\* a rejected cache write of findTrips: it is thrown inside the try block
FindTripsSetRejected(c) == RetryCatch([Rejected(c, "set") EXCEPT !.err = "Error"])

\* `await redis.set(cacheKey, JSON.stringify(data), 'EX', config.cacheTTL)`
FindTripsSet(p) ==
    LET c == calls[p] IN
    /\ c.pc = "ft_set"
    /\ \/ /\ faults > 0
          /\ faults' = faults - 1
          /\ calls' = [calls EXCEPT ![p] = FindTripsSetRejected(c)]
          /\ UNCHANGED redis
       \/ /\ redis' = FindTripsWrite(redis, c)
          /\ calls' = [calls EXCEPT ![p] = FindTripsStored(c)]
          /\ UNCHANGED faults
    /\ UNCHANGED <<tripsMaxRetry, db, now, commits, expiries>>

\* variant of the loop without attempt++
FindTripsWait_SameAttempt(p) ==
    LET c == calls[p] IN
    /\ c.pc = "ft_wait"
    /\ calls' = [calls EXCEPT ![p] = RetryLoop([c EXCEPT !.err = ""], c.attempt)]
    /\ UNCHANGED <<tripsMaxRetry, redis, db, now, commits, faults, expiries>>

\* the backoff timer fires: the catch block and its error end, attempt++ and
\* the loop test
FindTripsWait(p) ==
    LET c == calls[p] IN
    /\ c.pc = "ft_wait"
    /\ calls' = [calls EXCEPT ![p] = RetryLoop([c EXCEPT !.err = ""],
                                               c.attempt + 1)]
    /\ UNCHANGED <<tripsMaxRetry, redis, db, now, commits, faults, expiries>>

(***************************************************************************)
(* TripManagerService: the cache invalidation of saveTrip and deleteTrip.  *)
(***************************************************************************)
\* variant without the test of keys.length: redis.del follows in any case
AfterKeys_AlwaysDel(c, keys, value, delPc) ==
    [c EXCEPT !.pc = delPc, !.keys = keys, !.enumerated = TRUE]

\* after `await redis.keys(pattern)`: `if (keys.length)`, else the return
AfterKeys(c, keys, value, delPc) ==
    IF keys # {}
    THEN [c EXCEPT !.pc = delPc, !.keys = keys, !.enumerated = TRUE]
    ELSE Ok([c EXCEPT !.keys = keys, !.enumerated = TRUE], value)

\* variant that enumerates the default page alone
InvalidationKeys_DefaultPage(r) == RedisKeys(r, ListCacheKey(20, 0))

\* the keys `redis.keys(`${CACHE_KEY_TRIPS}*`)` answers
InvalidationKeys(r) == RedisKeys(r, InvalidationPattern)

\* variant that deletes the first key alone
InvalidationDel_FirstKeyOnly(r, keys) ==
    RedisDel(r, {CHOOSE k \in keys : TRUE})

\* the keyspace after `redis.del(...keys)`
InvalidationDel(r, keys) == RedisDel(r, keys)

(***************************************************************************)
(* TripManagerService.saveTrip                                             *)
(***************************************************************************)
\* variant without the test of the row found: the create follows in any case
SaveTripFindUnique_NoExistingTest(p) ==
    LET c == calls[p] IN
    /\ c.pc = "sv_findUnique"
    /\ \/ /\ faults > 0
          /\ faults' = faults - 1
          /\ calls' = [calls EXCEPT ![p] = Throw(c, "Error", 0)]
       \/ /\ calls' = [calls EXCEPT ![p] = [c EXCEPT !.pc = "sv_create"]]
          /\ UNCHANGED faults
    /\ UNCHANGED <<tripsMaxRetry, redis, db, now, commits, expiries>>

\* `await prisma.trip.findUnique({ where: { id: trip.id } })`
SaveTripFindUnique(p) ==
    LET c == calls[p] IN
    /\ c.pc = "sv_findUnique"
    /\ \/ /\ faults > 0
          /\ faults' = faults - 1
          /\ calls' = [calls EXCEPT ![p] = Throw(c, "Error", 0)]
       \/ /\ calls' = [calls EXCEPT ![p] =
                IF FindUnique(db, c.trip[1].id) # {}
                THEN Throw(c, "TRIP_ALREADY_SAVED", 409)
                ELSE [c EXCEPT !.pc = "sv_create"]]
          /\ UNCHANGED faults
    /\ UNCHANGED <<tripsMaxRetry, redis, db, now, commits, expiries>>

\* variant whose create replaces a row of the same id (an upsert)
SaveTripCreate_Upsert(p) ==
    LET c == calls[p] IN
    /\ c.pc = "sv_create"
    /\ \/ /\ faults > 0
          /\ faults' = faults - 1
          /\ calls' = [calls EXCEPT ![p] = Throw(c, "DB_ERROR", 500)]
          /\ UNCHANGED <<db, now, commits>>
       \/ /\ db' = (db \ FindUnique(db, c.trip[1].id))
                      \cup {CreatedRow(c.trip[1], now)}
          /\ now' = now + 1
          /\ commits' = commits + 1
          /\ calls' = [calls EXCEPT ![p] =
                [c EXCEPT !.pc = "sv_keys", !.committed = commits + 1,
                          !.data = <<CreatedRow(c.trip[1], now)>>]]
          /\ UNCHANGED faults
    /\ UNCHANGED <<tripsMaxRetry, redis, expiries>>

\* variant that invalidates the list cache when the create was rejected too
SaveTripCreate_InvalidatesOnFailure(p) ==
    LET c == calls[p] IN
    /\ c.pc = "sv_create"
    /\ \/ /\ faults > 0
          /\ faults' = faults - 1
          /\ calls' = [calls EXCEPT ![p] = [c EXCEPT !.pc = "sv_keys"]]
          /\ UNCHANGED <<db, now, commits>>
       \/ /\ FindUnique(db, c.trip[1].id) # {}
          /\ calls' = [calls EXCEPT ![p] = [c EXCEPT !.pc = "sv_keys"]]
          /\ UNCHANGED <<db, now, commits, faults>>
       \/ /\ FindUnique(db, c.trip[1].id) = {}
          /\ db' = db \cup {CreatedRow(c.trip[1], now)}
          /\ now' = now + 1
          /\ commits' = commits + 1
          /\ calls' = [calls EXCEPT ![p] =
                [c EXCEPT !.pc = "sv_keys", !.committed = commits + 1,
                          !.data = <<CreatedRow(c.trip[1], now)>>]]
          /\ UNCHANGED faults
    /\ UNCHANGED <<tripsMaxRetry, redis, expiries>>

\* `await prisma.trip.create({ data })`: rejected on a duplicate primary key
SaveTripCreate(p) ==
    LET c == calls[p] IN
    /\ c.pc = "sv_create"
    /\ \/ /\ faults > 0
          /\ faults' = faults - 1
          /\ calls' = [calls EXCEPT ![p] = Throw(c, "DB_ERROR", 500)]
          /\ UNCHANGED <<db, now, commits>>
       \/ /\ FindUnique(db, c.trip[1].id) # {}
          /\ calls' = [calls EXCEPT ![p] = Throw(c, "DB_ERROR", 500)]
          /\ UNCHANGED <<db, now, commits, faults>>
       \/ /\ FindUnique(db, c.trip[1].id) = {}
          /\ db' = db \cup {CreatedRow(c.trip[1], now)}
          /\ now' = now + 1
          /\ commits' = commits + 1
          /\ calls' = [calls EXCEPT ![p] =
                [c EXCEPT !.pc = "sv_keys", !.committed = commits + 1,
                          !.data = <<CreatedRow(c.trip[1], now)>>]]
          /\ UNCHANGED faults
    /\ UNCHANGED <<tripsMaxRetry, redis, expiries>>

\* a rejected redis.keys of saveTrip: it is thrown inside the try block
SaveTripKeysRejected(c) == Throw(Rejected(c, "keys"), "DB_ERROR", 500)

\* `await redis.keys(...)` of saveTrip
SaveTripKeys(p) ==
    LET c == calls[p] IN
    /\ c.pc = "sv_keys"
    /\ \/ /\ faults > 0
          /\ faults' = faults - 1
          /\ calls' = [calls EXCEPT ![p] = SaveTripKeysRejected(c)]
       \/ /\ calls' = [calls EXCEPT ![p] =
                AfterKeys(c, InvalidationKeys(redis), c.data, "sv_del")]
          /\ UNCHANGED faults
    /\ UNCHANGED <<tripsMaxRetry, redis, db, now, commits, expiries>>

\* `await redis.del(...keys).catch(warn)` of saveTrip, and `return saved`
SaveTripDel(p) ==
    LET c == calls[p] IN
    /\ c.pc = "sv_del"
    /\ \/ /\ faults > 0
          /\ faults' = faults - 1
          /\ UNCHANGED redis
          /\ calls' = [calls EXCEPT ![p] =
                Ok([Rejected(c, "del") EXCEPT !.delArgs = c.keys], c.data)]
       \/ /\ redis' = InvalidationDel(redis, c.keys)
          /\ calls' = [calls EXCEPT ![p] =
                Ok([c EXCEPT !.delArgs = c.keys], c.data)]
          /\ UNCHANGED faults
    /\ UNCHANGED <<tripsMaxRetry, db, now, commits, expiries>>

(***************************************************************************)
(* TripManagerService.listTrips                                            *)
(***************************************************************************)
ListKey(c) == ListCacheKey(c.limit, c.offset)

\* variant that reads the table whatever redis.get answers
ListTripsCached_NoEarlyReturn(c, cached) ==
    [c EXCEPT !.pc = "ls_findMany", !.coldStart = ~Truthy(cached)]

\* what listTrips does with the answer of redis.get
ListTripsCached(c, cached) ==
    IF Truthy(cached)
    THEN Ok([c EXCEPT !.cached = cached], JSONParse(cached[1]))
    ELSE [c EXCEPT !.pc = "ls_findMany", !.coldStart = TRUE]

\* `await redis.get(cacheKey)`, the first step of listTrips, outside the try
ListTripsGet(p, c) ==
    /\ \/ /\ faults > 0
          /\ faults' = faults - 1
          /\ calls' = [calls EXCEPT ![p] = Throw(Rejected(c, "get"), "Error", 0)]
       \/ /\ calls' = [calls EXCEPT ![p] =
                          ListTripsCached(c, RedisGet(redis, ListKey(c)))]
          /\ UNCHANGED faults
    /\ UNCHANGED <<tripsMaxRetry, redis, db, now, commits, expiries>>

\* `await prisma.trip.findMany({ take, skip, orderBy: { created_at: 'desc' } })`
ListTripsFindMany(p) ==
    LET c == calls[p] IN
    /\ c.pc = "ls_findMany"
    /\ \/ /\ faults > 0
          /\ faults' = faults - 1
          /\ calls' = [calls EXCEPT ![p] = Throw(c, "DB_ERROR", 500)]
       \/ /\ calls' = [calls EXCEPT ![p] =
                [c EXCEPT !.pc = "ls_set", !.data = FindMany(db, c.limit, c.offset),
                          !.committed = commits]]
          /\ UNCHANGED faults
    /\ UNCHANGED <<tripsMaxRetry, redis, db, now, commits, expiries>>

\* variant that returns the page read without writing it to the cache
ListTripsSet_ReturnsWithoutCaching(p) ==
    LET c == calls[p] IN
    /\ c.pc = "ls_set"
    /\ calls' = [calls EXCEPT ![p] = Ok(c, c.data)]
    /\ UNCHANGED <<tripsMaxRetry, redis, db, now, commits, faults, expiries>>

\* `await redis.set(cacheKey, JSON.stringify(trips), 'EX', config.cacheTTL)`
ListTripsSet(p) ==
    LET c == calls[p] IN
    /\ c.pc = "ls_set"
    /\ \/ /\ faults > 0
          /\ faults' = faults - 1
          /\ calls' = [calls EXCEPT ![p] =
                          Throw(Rejected(c, "set"), "DB_ERROR", 500)]
          /\ UNCHANGED redis
       \/ /\ redis' = RedisSet(redis, ListKey(c), JSONStringify(c.data), cacheTTL,
                               c.committed)
          /\ calls' = [calls EXCEPT ![p] = Ok([c EXCEPT !.sets = @ + 1], c.data)]
          /\ UNCHANGED faults
    /\ UNCHANGED <<tripsMaxRetry, db, now, commits, expiries>>

(***************************************************************************)
(* TripManagerService.deleteTrip                                           *)
(***************************************************************************)
\* variant without the test of the row found: the delete follows in any case
DeleteTripFindUnique_NoExistingTest(p, c) ==
    /\ \/ /\ faults > 0
          /\ faults' = faults - 1
          /\ calls' = [calls EXCEPT ![p] = Throw(c, "Error", 0)]
       \/ /\ calls' = [calls EXCEPT ![p] = [c EXCEPT !.pc = "dl_delete"]]
          /\ UNCHANGED faults
    /\ UNCHANGED <<tripsMaxRetry, redis, db, now, commits, expiries>>

\* variant that clears the list cache before it looks for the row
DeleteTripFindUnique_InvalidatesFirst(p, c) ==
    /\ \/ /\ faults > 0
          /\ faults' = faults - 1
          /\ calls' = [calls EXCEPT ![p] = Throw(c, "Error", 0)]
          /\ UNCHANGED redis
       \/ /\ redis' = InvalidationDel(redis, InvalidationKeys(redis))
          /\ calls' = [calls EXCEPT ![p] =
                LET d == [c EXCEPT !.enumerated = TRUE,
                                   !.delArgs = InvalidationKeys(redis)]
                IN  IF FindUnique(db, c.id) = {}
                    THEN Throw(d, "TRIP_NOT_FOUND", 404)
                    ELSE [d EXCEPT !.pc = "dl_delete"]]
          /\ UNCHANGED faults
    /\ UNCHANGED <<tripsMaxRetry, db, now, commits, expiries>>

\* `await prisma.trip.findUnique({ where: { id } })`, the first step
DeleteTripFindUnique(p, c) ==
    /\ \/ /\ faults > 0
          /\ faults' = faults - 1
          /\ calls' = [calls EXCEPT ![p] = Throw(c, "Error", 0)]
       \/ /\ calls' = [calls EXCEPT ![p] =
                IF FindUnique(db, c.id) = {}
                THEN Throw(c, "TRIP_NOT_FOUND", 404)
                ELSE [c EXCEPT !.pc = "dl_delete"]]
          /\ UNCHANGED faults
    /\ UNCHANGED <<tripsMaxRetry, redis, db, now, commits, expiries>>

\* `await prisma.trip.delete({ where: { id } })`: rejected if the row is gone
DeleteTripDelete(p) ==
    LET c == calls[p] IN
    /\ c.pc = "dl_delete"
    /\ \/ /\ faults > 0
          /\ faults' = faults - 1
          /\ calls' = [calls EXCEPT ![p] = Throw(c, "DB_ERROR", 500)]
          /\ UNCHANGED <<db, commits>>
       \/ /\ FindUnique(db, c.id) = {}
          /\ calls' = [calls EXCEPT ![p] = Throw(c, "DB_ERROR", 500)]
          /\ UNCHANGED <<db, commits, faults>>
       \/ /\ FindUnique(db, c.id) # {}
          /\ db' = db \ FindUnique(db, c.id)
          /\ commits' = commits + 1
          /\ calls' = [calls EXCEPT ![p] =
                [c EXCEPT !.pc = "dl_keys", !.committed = commits + 1]]
          /\ UNCHANGED faults
    /\ UNCHANGED <<tripsMaxRetry, redis, now, expiries>>

\* a rejected redis.keys of deleteTrip: it is thrown inside the try block
DeleteTripKeysRejected(c) == Throw(Rejected(c, "keys"), "DB_ERROR", 500)

\* `await redis.keys(...)` of deleteTrip
DeleteTripKeys(p) ==
    LET c == calls[p] IN
    /\ c.pc = "dl_keys"
    /\ \/ /\ faults > 0
          /\ faults' = faults - 1
          /\ calls' = [calls EXCEPT ![p] = DeleteTripKeysRejected(c)]
       \/ /\ calls' = [calls EXCEPT ![p] =
                AfterKeys(c, InvalidationKeys(redis), <<>>, "dl_del")]
          /\ UNCHANGED faults
    /\ UNCHANGED <<tripsMaxRetry, redis, db, now, commits, expiries>>

\* `await redis.del(...keys).catch(warn)` of deleteTrip, and the return
DeleteTripDel(p) ==
    LET c == calls[p] IN
    /\ c.pc = "dl_del"
    /\ \/ /\ faults > 0
          /\ faults' = faults - 1
          /\ UNCHANGED redis
          /\ calls' = [calls EXCEPT ![p] =
                Ok([Rejected(c, "del") EXCEPT !.delArgs = c.keys], <<>>)]
       \/ /\ redis' = InvalidationDel(redis, c.keys)
          /\ calls' = [calls EXCEPT ![p] =
                Ok([c EXCEPT !.delArgs = c.keys], <<>>)]
          /\ UNCHANGED faults
    /\ UNCHANGED <<tripsMaxRetry, db, now, commits, expiries>>

(***************************************************************************)
(* Requests arrive: a call begins with its first awaited step.  Calls are  *)
(* numbered in the order in which they begin.                              *)
(***************************************************************************)
\* history: some call is between its first step and its end
InFlight == \E q \in DOMAIN calls : calls[q].pc \notin {"idle", "done"}

MayStart(p) ==
    calls[p].pc = "idle" /\ (IF p = 1 THEN TRUE ELSE calls[p - 1].pc # "idle")

StartFindTrips(p) ==
    /\ MayStart(p)
    /\ \E route \in Routes :
          FindTripsGet(p, [IdleCall EXCEPT !.op = "findTrips", !.overlap = InFlight, !.origin = route[1],
                                           !.destination = route[2]])

StartSaveTrip(p) ==
    /\ MayStart(p)
    /\ \E id \in TripIds, route \in Routes :
          FindTripsGet(p, [IdleCall EXCEPT !.op = "saveTrip", !.id = id,
                                           !.overlap = InFlight,
                                           !.origin = route[1],
                                           !.destination = route[2]])

StartListTrips(p) ==
    /\ MayStart(p)
    /\ \E args \in ListArgs :
          ListTripsGet(p, [IdleCall EXCEPT !.op = "listTrips", !.args = args,
                                           !.limit = ListParams(args)[1],
                                           !.offset = ListParams(args)[2],
                                           !.overlap = InFlight])

StartDeleteTrip(p) ==
    /\ MayStart(p)
    /\ \E id \in TripIds :
          DeleteTripFindUnique(p, [IdleCall EXCEPT !.op = "deleteTrip", !.id = id,
                                                 !.overlap = InFlight])

\* the argument lists getTrips is called with: origin and destination in
\* some letter case, supported or not, and the sort order or none
GetTripsArgs ==
    {<<ATL, PEK>>, <<ATL, PEK, "cheapest">>,
     <<<<"a", "T", "l">>, <<"p", "e", "k">>, "cheapest">>,
     <<<<"X", "X", "X">>, PEK>>, <<ATL, <<"y", "y", "y">>, "cheapest">>}

\* variant that keeps the codes as they are given
GetTripsNormalize_AsGiven(code) == code

\* `origin = origin.toUpperCase()`, `destination = destination.toUpperCase()`
GetTripsNormalize(code) == toUpperCase(code)

\* variant that validates the origin alone
GetTripsSupported_OriginOnly(origin, destination) == isSupportedAirport(origin)

\* the validation of getTrips
GetTripsSupported(origin, destination) ==
    isSupportedAirport(origin) /\ isSupportedAirport(destination)

\* `sortBy ?? 'fastest'`
GetTripsSortParam(args) == IF Len(args) >= 3 THEN args[3] ELSE "fastest"

\* TripSearchService.getTrips up to its first await: normalise, validate,
\* then findTrips
StartGetTrips(p) ==
    /\ MayStart(p)
    /\ \E args \in GetTripsArgs :
          LET c == [IdleCall EXCEPT !.op = "getTrips", !.args = args,
                                    !.overlap = InFlight,
                                    !.origin = GetTripsNormalize(args[1]),
                                    !.destination = GetTripsNormalize(args[2]),
                                    !.sortParam = GetTripsSortParam(args)]
          IN  IF GetTripsSupported(c.origin, c.destination)
              THEN FindTripsGet(p, c)
              ELSE /\ calls' = [calls EXCEPT ![p] =
                                   Throw(c, "UNSUPPORTED_AIRPORT", 400)]
                   /\ UNCHANGED <<tripsMaxRetry, redis, db, now, commits, faults,
                                  expiries>>

\* the TTL of a key runs out
Expire(key) ==
    /\ faults > 0
    /\ faults' = faults - 1
    /\ redis' = RedisDel(redis, {key})
    /\ expiries' = expiries + 1
    /\ UNCHANGED <<tripsMaxRetry, db, now, commits, calls>>

(***************************************************************************)
(* SearchSpec: findTrips calls alone, under every configured retry count.  *)
(***************************************************************************)
SearchInit ==
    /\ tripsMaxRetry \in 0..MaxRetryCfg
    /\ redis = <<>>
    /\ db = {}
    /\ now = 1
    /\ commits = 0
    /\ calls = [p \in 1..SearchCalls |-> IdleCall]
    /\ faults = SearchFaults
    /\ expiries = 0

SearchNext ==
    \/ \E p \in DOMAIN calls : StartFindTrips(p)
    \/ \E p \in DOMAIN calls : FindTripsFetch(p)
    \/ \E p \in DOMAIN calls : FindTripsSet(p)
    \/ \E p \in DOMAIN calls : FindTripsWait(p)
    \/ \E key \in DOMAIN redis : Expire(key)

SearchSpec == SearchInit /\ [][SearchNext]_vars

\* findTrips calls where every awaited upstream call, cache write and backoff
\* timer of a call in flight completes at last (the event loop resumes the
\* call)
SearchFairInit ==
    /\ tripsMaxRetry \in 0..MaxRetryCfg
    /\ redis = <<>>
    /\ db = {}
    /\ now = 1
    /\ commits = 0
    /\ calls = [p \in 1..FairCalls |-> IdleCall]
    /\ faults = SearchFaults
    /\ expiries = 0

SearchFairSpec ==
    /\ SearchFairInit /\ [][SearchNext]_vars
    /\ \A p \in 1..FairCalls :
          /\ WF_vars(FindTripsFetch(p))
          /\ WF_vars(FindTripsSet(p))
          /\ WF_vars(FindTripsWait(p))

(***************************************************************************)
(* Spec: the trip manager, whose saveTrip runs findTrips.  The stores      *)
(* begin in a state earlier calls have left: some rows saved, the search   *)
(* answer and the list pages cached or not.                                *)
(***************************************************************************)
InitialTables == {{}, {CreatedRow(T2, 1), CreatedRow(T1, 2)}}

\* the cache with the search answer of every route and every list page of table
WarmCache(table) ==
    LET searchKeys == {buildSearchCacheKey(r[1], r[2]) : r \in Routes}
        pages == {ListParams(a) : a \in ListArgs}
        listKeys == {ListCacheKey(a[1], a[2]) : a \in pages}
        args(k) == CHOOSE a \in pages : ListCacheKey(a[1], a[2]) = k
    IN  [k \in searchKeys \cup listKeys |->
            IF k \in searchKeys
            THEN [value |-> JSONStringify(<<T2, T1>>), ex |-> cacheTTL, ver |-> 0]
            ELSE [value |-> JSONStringify(FindMany(table, args(k)[1], args(k)[2])),
                  ex |-> cacheTTL, ver |-> Cardinality(table)]]

Init ==
    /\ tripsMaxRetry = MaxRetryCfg
    /\ db \in InitialTables
    /\ redis \in {<<>>, WarmCache(db)}
    /\ now = Cardinality(db) + 1
    /\ commits = Cardinality(db)
    /\ calls = [p \in 1..NumCalls |-> IdleCall]
    /\ faults = MaxFaults
    /\ expiries = 0

Next ==
    \/ \E p \in DOMAIN calls : StartSaveTrip(p)
    \/ \E p \in DOMAIN calls : StartListTrips(p)
    \/ \E p \in DOMAIN calls : StartDeleteTrip(p)
    \/ \E p \in DOMAIN calls : FindTripsFetch(p)
    \/ \E p \in DOMAIN calls : FindTripsSet(p)
    \/ \E p \in DOMAIN calls : FindTripsWait(p)
    \/ \E p \in DOMAIN calls : SaveTripFindUnique(p)
    \/ \E p \in DOMAIN calls : SaveTripCreate(p)
    \/ \E p \in DOMAIN calls : SaveTripKeys(p)
    \/ \E p \in DOMAIN calls : SaveTripDel(p)
    \/ \E p \in DOMAIN calls : ListTripsFindMany(p)
    \/ \E p \in DOMAIN calls : ListTripsSet(p)
    \/ \E p \in DOMAIN calls : DeleteTripDelete(p)
    \/ \E p \in DOMAIN calls : DeleteTripKeys(p)
    \/ \E p \in DOMAIN calls : DeleteTripDel(p)
    \/ \E key \in DOMAIN redis : Expire(key)

Spec == Init /\ [][Next]_vars

(***************************************************************************)
(* StaleSpec: the trip manager beginning with stale list pages.  A         *)
(* listTrips that read the table before an insert or a delete and wrote    *)
(* its page after the invalidation, or a redis.del whose rejection was     *)
(* swallowed, leaves every page of an earlier table in the cache.          *)
(***************************************************************************)
\* the list pages of table, as listTrips caches them
StalePages(table) ==
    LET pages == {ListParams(a) : a \in ListArgs}
        listKeys == {ListCacheKey(a[1], a[2]) : a \in pages}
        args(k) == CHOOSE a \in pages : ListCacheKey(a[1], a[2]) = k
    IN  [k \in listKeys |->
            [value |-> JSONStringify(FindMany(table, args(k)[1], args(k)[2])),
             ex |-> cacheTTL, ver |-> Cardinality(table)]]

StaleInit ==
    /\ tripsMaxRetry = MaxRetryCfg
    /\ db \in InitialTables
    /\ \E earlier \in InitialTables \ {db} :
          /\ redis = StalePages(earlier)
          /\ now = Cardinality(db) + Cardinality(earlier) + 1
          /\ commits = Cardinality(db) + 2 * Cardinality(earlier)
    /\ calls = [p \in 1..NumCalls |-> IdleCall]
    /\ faults = MaxFaults
    /\ expiries = 0

StaleSpec == StaleInit /\ [][Next]_vars

(***************************************************************************)
(* GetTripsSpec: getTrips calls.  The cache begins empty or with a search  *)
(* answer an earlier call has left.                                        *)
(***************************************************************************)
SortTrips == {T1, T2, T3}

\* the answers the cache may hold at the start: none, two trips in either
\* order (equal in cost, equal in duration, or in neither), and three
CachedArrays ==
    {<<>>, <<T3, T2, T1>>}
        \cup {arr \in {<<a, b>> : a \in SortTrips, b \in SortTrips} : arr[1] # arr[2]}

SearchCacheOf(data) ==
    [k \in {buildSearchCacheKey(ATL, PEK)} |->
        [value |-> JSONStringify(data), ex |-> cacheTTL, ver |-> 0]]

GetTripsInit ==
    /\ tripsMaxRetry = MaxRetryCfg
    /\ redis \in {<<>>} \cup {SearchCacheOf(data) : data \in CachedArrays}
    /\ db = {}
    /\ now = 1
    /\ commits = 0
    /\ calls = [p \in 1..GetCalls |-> IdleCall]
    /\ faults = GetFaults
    /\ expiries = 0

GetTripsNext ==
    \/ \E p \in DOMAIN calls : StartGetTrips(p)
    \/ \E p \in DOMAIN calls : FindTripsFetch(p)
    \/ \E p \in DOMAIN calls : FindTripsSet(p)
    \/ \E p \in DOMAIN calls : FindTripsWait(p)
    \/ \E key \in DOMAIN redis : Expire(key)

GetTripsSpec == GetTripsInit /\ [][GetTripsNext]_vars

(***************************************************************************)
(* HelperSpec: the pure helpers of utils/helper.ts and the key templates   *)
(* of the trip manager, applied to arguments drawn from bounded sets.  The *)
(* helpers keep no state, so a behaviour is one application.               *)
(***************************************************************************)
KeyChars == {"A", "a", ":"}

\* the strings of at most n characters of KeyChars
StringsUpTo(n) == UNION {[1..k -> KeyChars] : k \in 0..n}

\* the strings the key builder is applied to
KeyStrings ==
    StringsUpTo(MaxStrLen) \cup {ATL, PEK, <<"a", "t", "l">>, <<"p", "e", "k">>}

\* the lower-case letter of a capital
LowerOf(ch) == LowerLetters[CHOOSE j \in 1..26 : UpperLetters[j] = ch]

\* the spellings of a three-letter code in every letter case
CaseVariants(code) ==
    {<<a, b, c>> : a \in {code[1], LowerOf(code[1])},
                   b \in {code[2], LowerOf(code[2])},
                   c \in {code[3], LowerOf(code[3])}}

\* the strings isSupportedAirport is applied to
AirportInputs ==
    UNION {CaseVariants(code) : code \in SUPPORTED_AIRPORTS}
        \cup KeyStrings
        \cup {<<"X", "X", "X">>, <<"A", "B", "C">>, <<"@", "@", "@">>,
              <<"x", "x", "x">>, <<"A", "T">>, <<"A", "T", "L", "X">>,
              <<"A", "T", "L", " ">>, <<"1", "2", "3">>, <<"A", "T", "K">>}

\* the page sizes and offsets the list key is built from
PageLimits == {1, 9, 10, 20, 99, 100}
PageOffsets == {0, 1, 10, 19, 100, 101}

Helper(op, args) == [IdleCall EXCEPT !.op = op, !.args = args]

CallBuildSearchCacheKey(p) ==
    /\ MayStart(p)
    /\ \E origin \in KeyStrings, destination \in KeyStrings :
          calls' = [calls EXCEPT ![p] =
                       Ok(Helper("buildSearchCacheKey", <<origin, destination>>),
                          buildSearchCacheKey(origin, destination))]
    /\ UNCHANGED <<tripsMaxRetry, redis, db, now, commits, faults, expiries>>

CallListCacheKey(p) ==
    /\ MayStart(p)
    /\ \E limit \in PageLimits, offset \in PageOffsets :
          calls' = [calls EXCEPT ![p] =
                       Ok(Helper("listCacheKey", <<limit, offset>>),
                          ListCacheKey(limit, offset))]
    /\ UNCHANGED <<tripsMaxRetry, redis, db, now, commits, faults, expiries>>

CallInvalidationPattern(p) ==
    /\ MayStart(p)
    /\ calls' = [calls EXCEPT ![p] =
                    Ok(Helper("invalidationPattern", <<>>), InvalidationPattern)]
    /\ UNCHANGED <<tripsMaxRetry, redis, db, now, commits, faults, expiries>>

CallIsSupportedAirport(p) ==
    /\ MayStart(p)
    /\ \E code \in AirportInputs :
          calls' = [calls EXCEPT ![p] =
                       Ok(Helper("isSupportedAirport", <<code>>),
                          isSupportedAirport(code))]
    /\ UNCHANGED <<tripsMaxRetry, redis, db, now, commits, faults, expiries>>

HelperInit ==
    /\ tripsMaxRetry = MaxRetryCfg
    /\ redis = <<>>
    /\ db = {}
    /\ now = 1
    /\ commits = 0
    /\ calls = <<IdleCall>>
    /\ faults = 0
    /\ expiries = 0

HelperNext ==
    \/ \E p \in DOMAIN calls : CallBuildSearchCacheKey(p)
    \/ \E p \in DOMAIN calls : CallListCacheKey(p)
    \/ \E p \in DOMAIN calls : CallInvalidationPattern(p)
    \/ \E p \in DOMAIN calls : CallIsSupportedAirport(p)

HelperSpec == HelperInit /\ [][HelperNext]_vars

(***************************************************************************)
(* Properties.                                                             *)
(***************************************************************************)
HasPrefix(s, prefix) ==
    Len(s) >= Len(prefix) /\ SubSeq(s, 1, Len(prefix)) = prefix

IsListKey(k) == HasPrefix(k, CACHE_KEY_TRIPS)

AllFailed(fetches) == \A i \in 1..Len(fetches) : fetches[i] = "failed"

OkFetches(fetches) == {i \in 1..Len(fetches) : fetches[i] = "ok"}

\* baseDelay*1, ..., baseDelay*n
LinearBackoff(n) == [i \in 1..n |-> baseDelay * i]

Began(p) == calls[p].pc = "idle" /\ calls'[p].pc # "idle"

Returned(p) == calls[p].pc # "done" /\ calls'[p].pc = "done"

\* C1: a findTrips call (of a request or of saveTrip) that finds an entry under
\* its key returns the parsed entry in that very step: no upstream fetch, no
\* backoff wait, no cache write.
C1_CacheHitReturnsCached ==
    [][\A p \in DOMAIN calls :
          LET k == Key(calls'[p]) IN
          (Began(p) /\ calls'[p].op \in {"findTrips", "saveTrip"}
                    /\ k \in DOMAIN redis /\ calls'[p].cacheFail = <<>>)
          => /\ calls'[p].ft.kind = "ok"
             /\ calls'[p].ft.value = JSONParse(redis[k].value)
             /\ calls'[p].op = "findTrips"
                => (calls'[p].pc = "done" /\ calls'[p].result = calls'[p].ft)
             /\ calls'[p].pc \notin {"ft_fetch", "ft_set", "ft_wait"}
             /\ calls'[p].fetches = <<>>
             /\ calls'[p].waits = <<>>
             /\ calls'[p].sets = 0
             /\ redis' = redis]_vars

C1_Witness ==
    \E p \in DOMAIN calls :
        /\ calls[p].op = "findTrips" /\ calls[p].cached # <<>>
        /\ calls[p].result.kind = "ok" /\ calls[p].result.value = <<T2, T1>>

\* C2: when a findTrips call that began with a miss returns successfully,
\* exactly one of its upstream fetches had a success status, the last one, and
\* the cache holds under its key the serialization of the returned array, with
\* the configured TTL.
C2_MissOneSuccessfulFetch ==
    [][\A p \in DOMAIN calls :
          (Returned(p) /\ calls'[p].op = "findTrips" /\ calls'[p].coldStart
                       /\ calls'[p].result.kind = "ok")
          => /\ OkFetches(calls'[p].fetches) = {Len(calls'[p].fetches)}
             /\ Key(calls'[p]) \in DOMAIN redis'
             /\ redis'[Key(calls'[p])].value = JSONStringify(calls'[p].result.value)
             /\ redis'[Key(calls'[p])].ex = cacheTTL]_vars

\* C3: once a cache write of findTrips has been rejected, the call has
\* returned the fetched array, having fetched successfully once.
C3_SetFailureStillReturns ==
    \A p \in DOMAIN calls :
        (calls[p].op = "findTrips"
            /\ \E i \in 1..Len(calls[p].cacheFail) : calls[p].cacheFail[i] = "set")
        => /\ calls[p].pc = "done"
           /\ calls[p].result.kind = "ok"
           /\ calls[p].result.value = calls[p].data
           /\ Cardinality(OkFetches(calls[p].fetches)) = 1

\* C4: when the upstream call of a findTrips call failed on attempts 1..N-1
\* and succeeded on attempt N (and the write behind it is over), the call has
\* succeeded with exactly N upstream calls and the waits baseDelay*1, ...,
\* baseDelay*(N-1), in that order.
C4_SucceedsOnAttemptN ==
    \A p \in DOMAIN calls :
        LET c == calls[p]
            oks == OkFetches(c.fetches)
            N == CHOOSE i \in oks : \A j \in oks : i <= j
        IN  (c.op = "findTrips" /\ oks # {}
                /\ ~(c.pc = "ft_set" /\ Len(c.fetches) = N))
            => /\ c.pc = "done"
               /\ c.result.kind = "ok"
               /\ Len(c.fetches) = N
               /\ c.waits = LinearBackoff(N - 1)

\* C5: a findTrips call all of whose upstream calls failed ends with
\* FETCH_RETRY_FAILED (502) after exactly tripsMaxRetry upstream calls and
\* tripsMaxRetry - 1 waits: it never waits behind the last attempt.
C5_ExhaustedRetries ==
    \A p \in DOMAIN calls :
        LET c == calls[p] IN
        /\ (c.op = "findTrips" /\ c.pc = "done" /\ c.fetches # <<>>
               /\ AllFailed(c.fetches))
           => /\ c.result.kind = "error"
              /\ c.result.code = "FETCH_RETRY_FAILED"
              /\ c.result.status = 502
              /\ Len(c.fetches) = tripsMaxRetry
              /\ c.waits = LinearBackoff(tripsMaxRetry - 1)
        /\ (c.pc = "ft_wait" /\ AllFailed(c.fetches))
           => Len(c.fetches) < tripsMaxRetry

C5_Witness ==
    \E p \in DOMAIN calls :
        /\ calls[p].op = "findTrips" /\ calls[p].pc = "done"
        /\ calls[p].fetches = <<"failed", "failed", "failed">>
        /\ calls[p].result.code = "FETCH_RETRY_FAILED"

\* C6: the step in which findTrips ends with an error leaves the cache as it
\* is, and the call has written nothing before; a call that begins on the
\* absent key misses, and fetches if any attempt is configured.
C6_FailuresNotCached ==
    [][\A p \in DOMAIN calls :
          /\ (calls[p].ft.kind = "pending" /\ calls'[p].ft.kind = "error")
             => (redis' = redis /\ calls'[p].sets = 0)
          /\ (Began(p) /\ Key(calls'[p]) \notin DOMAIN redis
                       /\ calls'[p].cacheFail = <<>> /\ tripsMaxRetry >= 1)
             => calls'[p].pc = "ft_fetch"]_vars

C6_Witness ==
    \E p \in DOMAIN calls :
        /\ calls[p].op = "findTrips" /\ calls[p].coldStart
        /\ calls[p].result.code = "FETCH_RETRY_FAILED"
        /\ Key(calls[p]) \notin DOMAIN redis
        /\ \E q \in DOMAIN calls : q > p /\ calls[q].pc = "ft_fetch"

\* C7: once its create has succeeded, a saveTrip call that is over has
\* returned the saved row, whichever invalidation command was rejected.
C7_SaveSurvivesInvalidationFailure ==
    \A p \in DOMAIN calls :
        (calls[p].op = "saveTrip" /\ calls[p].committed > 0 /\ calls[p].pc = "done")
        => (calls[p].result.kind = "ok" /\ calls[p].result.value = calls[p].data)

\* C8: once its delete has succeeded, a deleteTrip call that is over has
\* resolved, whichever invalidation command was rejected.
C8_DeleteSurvivesInvalidationFailure ==
    \A p \in DOMAIN calls :
        (calls[p].op = "deleteTrip" /\ calls[p].committed > 0
            /\ calls[p].pc = "done")
        => calls[p].result.kind = "ok"

\* C9: redis.keys of saveTrip and deleteTrip answers exactly the keys that
\* begin with trips:saved; a call that returns successfully has enumerated,
\* has called redis.del with every key enumerated (if any), and, when none of
\* its Redis commands was rejected, none of those keys is left at its return.
C9_InvalidatesEveryListKey ==
    [][\A p \in DOMAIN calls :
          /\ (calls[p].pc \in {"sv_keys", "dl_keys"} /\ calls'[p].enumerated)
             => calls'[p].keys = {k \in DOMAIN redis : IsListKey(k)}
          /\ (Returned(p) /\ calls'[p].op \in {"saveTrip", "deleteTrip"}
                          /\ calls'[p].result.kind = "ok")
             => /\ calls'[p].enumerated
                /\ calls'[p].delArgs = calls'[p].keys
                /\ calls'[p].cacheFail = <<>>
                   => calls'[p].keys \cap DOMAIN redis' = {}]_vars

C9_Witness ==
    \E p \in DOMAIN calls :
        /\ calls[p].op = "saveTrip" /\ calls[p].result.kind = "ok"
        /\ calls[p].cacheFail = <<>>
        /\ calls[p].delArgs = {ListCacheKey(20, 0), ListCacheKey(1, 1)}
        /\ \A k \in DOMAIN redis : ~IsListKey(k)

\* C10: while no Redis command was rejected and no key expired, once a
\* saveTrip or deleteTrip has returned, no list-cache entry holds a page read
\* from the Trip table before that call's insert or delete.
C10_NoStalePageAfterMutation ==
    ((\A q \in DOMAIN calls : calls[q].cacheFail = <<>>) /\ expiries = 0)
    => \A p \in DOMAIN calls :
          (calls[p].op \in {"saveTrip", "deleteTrip"} /\ calls[p].pc = "done"
              /\ calls[p].result.kind = "ok")
          => \A k \in DOMAIN redis :
                IsListKey(k) => redis[k].ver >= calls[p].committed

\* the run so far was sequential: no call began while another was in flight
SequentialRun == \A q \in DOMAIN calls : ~calls[q].overlap

\* no cache, store or upstream operation has failed so far (every unit of
\* the budget that was spent went to the expiry of a key)
NoFailure == faults + expiries = MaxFaults

\* the listTrips call p returns successfully in this step of a sequential run
\* without failures
SequentialListReturn(p) ==
    /\ Returned(p) /\ calls'[p].op = "listTrips" /\ calls'[p].result.kind = "ok"
    /\ SequentialRun' /\ NoFailure'

\* C11 as stated: in a sequential run without failures, every listTrips
\* returns exactly the array an uncached findMany would answer at that moment.
C11_ListEqualsUncachedRead ==
    [][\A p \in DOMAIN calls :
          SequentialListReturn(p)
          => calls'[p].result.value
                = FindMany(db, calls'[p].limit, calls'[p].offset)]_vars

\* C11 amended: in a sequential run without failures, every listTrips ends
\* successfully, and what it returns has the JSON text of what an uncached
\* findMany would answer at that moment: the same records in the same order,
\* created_at being the ISO string instead of the Date when the page comes
\* from the cache.
C11_ListEqualsUncachedReadAsJSON ==
    [][\A p \in DOMAIN calls :
          /\ (Returned(p) /\ calls'[p].op = "listTrips"
                 /\ SequentialRun' /\ NoFailure')
             => calls'[p].result.kind = "ok"
          /\ SequentialListReturn(p)
             => /\ JSONStringify(calls'[p].result.value)
                     = JSONStringify(FindMany(db, calls'[p].limit, calls'[p].offset))
                /\ calls'[p].cached = <<>>
                   => calls'[p].result.value
                         = FindMany(db, calls'[p].limit, calls'[p].offset)]_vars

\* a listTrips that returned the page read behind a delete, in a sequential
\* run without failures that began with the page cached
C11_Witness ==
    /\ SequentialRun /\ NoFailure
    /\ \E p, q \in DOMAIN calls :
          /\ q < p
          /\ calls[q].op = "deleteTrip" /\ calls[q].result.kind = "ok"
          /\ calls[q].delArgs # {}
          /\ calls[p].op = "listTrips" /\ calls[p].result.kind = "ok"
          /\ calls[p].limit = 20
          /\ calls[p].result.value = <<CreatedRow(T2, 1)>>

\* the lookup of the saveTrip call p ends in this step, with the array it
\* hands to saveTrip
LookupEnds(p) ==
    /\ calls[p].ft.kind = "pending" /\ calls'[p].ft.kind = "ok"
    /\ calls'[p].op = "saveTrip"

HasId(trips, id) == \E i \in 1..Len(trips) : trips[i].id = id

\* C12: when the lookup of a saveTrip call answers an array, empty or not,
\* without an element of the id, the call ends in that step with
\* TRIP_NOT_FOUND (404): it never reaches findUnique or create, and the Trip
\* table is as it was.
C12_SaveUnknownIdNotFound ==
    [][\A p \in DOMAIN calls :
          (LookupEnds(p) /\ ~HasId(calls'[p].ft.value, calls'[p].id))
          => /\ calls'[p].pc = "done"
             /\ calls'[p].result.kind = "error"
             /\ calls'[p].result.code = "TRIP_NOT_FOUND"
             /\ calls'[p].result.status = 404
             /\ calls'[p].trip = <<>>
             /\ calls'[p].committed = 0
             /\ db' = db /\ commits' = commits]_vars

\* a saveTrip that ended with TRIP_NOT_FOUND on a lookup result that is not
\* empty
C12_Witness ==
    \E p \in DOMAIN calls :
        /\ calls[p].op = "saveTrip" /\ calls[p].pc = "done"
        /\ calls[p].ft.kind = "ok" /\ calls[p].ft.value = <<T2>>
        /\ calls[p].result.code = "TRIP_NOT_FOUND"

Persisted(id) == \E row \in db : row.id = id

\* C13: when the findUnique of a saveTrip call answers while a row of the id
\* is in the Trip table, the call ends in that step with TRIP_ALREADY_SAVED
\* (409): no create is made, and the table and the cache are as they were.
C13_SaveExistingIdConflict ==
    [][\A p \in DOMAIN calls :
          (calls[p].pc = "sv_findUnique" /\ calls'[p].pc # "sv_findUnique"
              /\ faults' = faults /\ Persisted(calls[p].id))
          => /\ calls'[p].pc = "done"
             /\ calls'[p].result.kind = "error"
             /\ calls'[p].result.code = "TRIP_ALREADY_SAVED"
             /\ calls'[p].result.status = 409
             /\ calls'[p].committed = 0
             /\ db' = db /\ commits' = commits /\ now' = now
             /\ redis' = redis]_vars

\* a saveTrip that ended with TRIP_ALREADY_SAVED, the row and the cached
\* pages in place
C13_Witness ==
    \E p \in DOMAIN calls :
        /\ calls[p].op = "saveTrip" /\ calls[p].pc = "done"
        /\ calls[p].result.code = "TRIP_ALREADY_SAVED"
        /\ CreatedRow(T1, 2) \in db
        /\ ListCacheKey(20, 0) \in DOMAIN redis

\* a step of the saveTrip call p
SaveTripStep(p) == calls'[p] # calls[p] /\ calls'[p].op = "saveTrip"

\* C14: under every interleaving of saveTrip calls, two of the same id
\* among them, the Trip table holds at most one row per id; a saveTrip
\* succeeds only with a row it inserted, and it inserts only while no row of
\* the id is stored, so that of two successful calls for an id each inserted
\* its own row and at most one of the two rows is stored (the other was
\* deleted in between); and no step of a saveTrip, rejected or not, removes
\* or changes a stored row.
C14_OneRowPerId ==
    [][/\ \A r1, r2 \in db' : r1.id = r2.id => r1 = r2
       /\ \A p \in DOMAIN calls :
             /\ (SaveTripStep(p) /\ calls'[p].result.kind = "ok")
                => calls'[p].committed > 0
             /\ (SaveTripStep(p) /\ calls[p].committed = 0
                                 /\ calls'[p].committed > 0)
                => /\ ~Persisted(calls'[p].id)
                   /\ db' = db \cup {calls'[p].data[1]}
                   /\ calls'[p].data[1].id = calls'[p].id
             /\ SaveTripStep(p) => db \subseteq db'
       /\ \A p, q \in DOMAIN calls :
             (p # q /\ calls'[p].op = "saveTrip" /\ calls'[q].op = "saveTrip"
                 /\ calls'[p].result.kind = "ok" /\ calls'[q].result.kind = "ok"
                 /\ calls'[p].id = calls'[q].id)
             => /\ calls'[p].data # calls'[q].data
                /\ calls'[p].data[1] \notin db' \/ calls'[q].data[1] \notin db']_vars

\* two saveTrip calls of one id overlapped and both reached the create: the
\* first succeeded, the second was rejected, and the row is the first one's
C14_Witness ==
    \E p, q \in DOMAIN calls :
        /\ p # q /\ calls[p].op = "saveTrip" /\ calls[q].op = "saveTrip"
        /\ calls[p].id = calls[q].id /\ calls[q].overlap
        /\ calls[p].result.kind = "ok" /\ calls[p].data[1] \in db
        /\ calls[q].pc = "done" /\ calls[q].result.kind = "error"
        /\ calls[q].trip # <<>> /\ calls[q].result.code = "DB_ERROR"
        /\ NoFailure

\* C15: a saveTrip call whose create is answered while a row of the id is
\* stored (inserted by a concurrent saveTrip behind this call's findUnique)
\* ends with TRIP_ALREADY_SAVED (409).
C15_LateConflictIsAlreadySaved ==
    [][\A p \in DOMAIN calls :
          (calls[p].pc = "sv_create" /\ calls'[p].pc # "sv_create"
              /\ faults' = faults /\ Persisted(calls[p].id))
          => /\ calls'[p].pc = "done"
             /\ calls'[p].result.kind = "error"
             /\ calls'[p].result.code = "TRIP_ALREADY_SAVED"
             /\ calls'[p].result.status = 409]_vars

\* C16: a deleteTrip whose findUnique answers while no row of the id is
\* stored ends in that step with TRIP_NOT_FOUND (404): no delete is made, no
\* cache key is enumerated or deleted, and the table and the cache are as
\* they were.
C16_DeleteAbsentIdNotFound ==
    [][\A p \in DOMAIN calls :
          (Began(p) /\ calls'[p].op = "deleteTrip" /\ faults' = faults
                    /\ ~Persisted(calls'[p].id))
          => /\ calls'[p].pc = "done"
             /\ calls'[p].result.kind = "error"
             /\ calls'[p].result.code = "TRIP_NOT_FOUND"
             /\ calls'[p].result.status = 404
             /\ calls'[p].committed = 0
             /\ ~calls'[p].enumerated
             /\ calls'[p].delArgs = {}
             /\ db' = db /\ commits' = commits
             /\ redis' = redis]_vars

\* a deleteTrip that ended with TRIP_NOT_FOUND, the list pages still cached
C16_Witness ==
    \E p \in DOMAIN calls :
        /\ calls[p].op = "deleteTrip" /\ calls[p].pc = "done"
        /\ calls[p].result.code = "TRIP_NOT_FOUND"
        /\ ListCacheKey(1, 1) \in DOMAIN redis
        /\ ListCacheKey(20, 0) \in DOMAIN redis

\* C17: a listTrips call that finds an entry under trips:saved:<limit>:<offset>
\* returns the parsed entry in that very step: the Trip table is not read and
\* the cache is not written.
C17_ListHitReturnsCached ==
    [][\A p \in DOMAIN calls :
          LET k == ListCacheKey(calls'[p].limit, calls'[p].offset) IN
          (Began(p) /\ calls'[p].op = "listTrips" /\ k \in DOMAIN redis
                    /\ calls'[p].cacheFail = <<>>)
          => /\ calls'[p].pc = "done"
             /\ calls'[p].result.kind = "ok"
             /\ calls'[p].result.value = JSONParse(redis[k].value)
             /\ ~calls'[p].coldStart
             /\ calls'[p].sets = 0
             /\ redis' = redis]_vars

\* a listTrips that returned the cached page of two rows, as it was parsed
C17_Witness ==
    \E p \in DOMAIN calls :
        /\ calls[p].op = "listTrips" /\ calls[p].limit = 20
        /\ calls[p].cached # <<>> /\ calls[p].result.kind = "ok"
        /\ Len(calls[p].result.value) = 2
        /\ calls[p].result.value[1].created_at = [iso |-> 2]

\* pg is the page of table by creation time descending, skipping offset and
\* taking limit: its i-th row has exactly offset + i - 1 newer rows
IsPage(pg, table, limit, offset) ==
    LET rest == IF Cardinality(table) > offset
                THEN Cardinality(table) - offset ELSE 0
    IN  /\ Len(pg) = (IF limit < rest THEN limit ELSE rest)
        /\ \A i \in 1..Len(pg) :
              /\ pg[i] \in table
              /\ Cardinality({r \in table :
                                r.created_at.date > pg[i].created_at.date})
                    = offset + i - 1

\* C18: a listTrips call takes limit 20 and offset 0 when it is given no
\* arguments; when it finds no entry under trips:saved:<limit>:<offset> it
\* goes on to read the Trip table, once: the page by creation time
\* descending, skipping offset and taking limit; it then stores the JSON text
\* of that page under the key with the configured TTL, touching no other
\* key, and returns the page.
C18_ListMissReadsStoresReturns ==
    [][\A p \in DOMAIN calls :
          LET c == calls[p]
              d == calls'[p]
              k == ListCacheKey(d.limit, d.offset)
          IN
          /\ (Began(p) /\ d.op = "listTrips")
             => /\ d.args = <<>> => (d.limit = 20 /\ d.offset = 0)
                /\ d.args # <<>> => (d.limit = d.args[1] /\ d.offset = d.args[2])
                /\ (k \notin DOMAIN redis /\ d.cacheFail = <<>>)
                   => (d.pc = "ls_findMany" /\ redis' = redis)
          /\ (c.pc = "ls_findMany" /\ d.pc # "ls_findMany" /\ faults' = faults)
             => /\ d.pc = "ls_set"
                /\ IsPage(d.data, db, c.limit, c.offset)
                /\ redis' = redis /\ db' = db
          /\ (c.pc = "ls_set" /\ d.pc # "ls_set" /\ faults' = faults)
             => /\ d.pc = "done"
                /\ d.result.kind = "ok"
                /\ d.result.value = c.data
                /\ k \in DOMAIN redis'
                /\ redis'[k].value = JSONStringify(c.data)
                /\ redis'[k].ex = cacheTTL
                /\ \A j \in (DOMAIN redis \cup DOMAIN redis') \ {k} :
                      j \in DOMAIN redis /\ j \in DOMAIN redis'
                         /\ redis'[j] = redis[j]]_vars

\* two listTrips calls that missed, one without arguments and one of limit 1
\* and offset 1, have returned their pages of a table of two rows, and both
\* pages are cached
C18_Witness ==
    \E p, q \in DOMAIN calls :
        /\ calls[p].op = "listTrips" /\ calls[p].args = <<>>
        /\ calls[p].coldStart
        /\ calls[p].result.value = <<CreatedRow(T1, 2), CreatedRow(T2, 1)>>
        /\ calls[q].op = "listTrips" /\ calls[q].args = <<1, 1>>
        /\ calls[q].coldStart
        /\ calls[q].result.value = <<CreatedRow(T2, 1)>>
        /\ ListCacheKey(20, 0) \in DOMAIN redis
        /\ ListCacheKey(1, 1) \in DOMAIN redis
        /\ redis[ListCacheKey(1, 1)].value = JSONStringify(<<CreatedRow(T2, 1)>>)

\* were the search entry of any two supported airports written to the cache,
\* the enumeration of saveTrip and deleteTrip would not answer its key
SearchKeysEscapePattern ==
    \A origin, destination \in SUPPORTED_AIRPORTS :
        LET k == buildSearchCacheKey(origin, destination)
            r == RedisSet(redis, k, JSONStringify(<<>>), cacheTTL, 0)
        IN  k \notin InvalidationKeys(r)

\* C19: the search key of every pair of supported airports (the origins and
\* destinations that reach findTrips) escapes the pattern trips:saved* (a
\* fact of the keys alone, looked at when the first call begins); and in
\* every step, the search entry of a route the calls are made with is
\* neither among the keys saveTrip or deleteTrip enumerates, nor among those
\* they delete, nor changed by the delete, and it leaves the cache only when
\* it expires.
C19_SearchEntriesNotInvalidated ==
    [][/\ (\A q \in DOMAIN calls : calls[q].pc = "idle")
          => SearchKeysEscapePattern
       /\ \A route \in Routes :
             LET k == buildSearchCacheKey(route[1], route[2]) IN
             /\ (k \in DOMAIN redis /\ k \notin DOMAIN redis')
                => expiries' = expiries + 1
             /\ \A p \in DOMAIN calls :
                   /\ (calls[p].pc \in {"sv_keys", "dl_keys"}
                          /\ calls'[p].enumerated)
                      => k \notin calls'[p].keys
                   /\ (calls[p].pc \in {"sv_del", "dl_del"}
                          /\ calls'[p].pc = "done")
                      => /\ k \notin calls'[p].delArgs
                         /\ k \in DOMAIN redis
                            => (k \in DOMAIN redis' /\ redis'[k] = redis[k])]_vars

\* a saveTrip or deleteTrip has deleted list pages, and the search entry of
\* the route is still cached
C19_Witness ==
    /\ expiries = 0
    /\ buildSearchCacheKey(ATL, PEK) \in DOMAIN redis
    /\ \A k \in DOMAIN redis : ~IsListKey(k)
    /\ \E p \in DOMAIN calls :
          /\ calls[p].op = "deleteTrip" /\ calls[p].result.kind = "ok"
          /\ calls[p].cacheFail = <<>>
          /\ calls[p].delArgs = {ListCacheKey(20, 0), ListCacheKey(1, 1)}

\* C20: in a sequential run, when a findTrips call has returned an array
\* (the empty one included) and the next findTrips call of the same origin
\* and destination begins while the entry is in the cache, that call returns
\* in its first step an array identical to the one the call before returned,
\* having made no upstream call; and the call before, if it began on a cold
\* cache, has left the entry there.
C20_SearchCacheRoundTrip ==
    [][\A q \in DOMAIN calls \ {1} :
          LET w == calls[q - 1]
              d == calls'[q]
          IN
          /\ (Began(q) /\ SequentialRun' /\ d.op = "findTrips"
                 /\ w.op = "findTrips" /\ w.result.kind = "ok"
                 /\ Key(w) = Key(d) /\ Key(d) \in DOMAIN redis
                 /\ d.cacheFail = <<>>)
             => /\ d.pc = "done"
                /\ d.result.kind = "ok"
                /\ d.result.value = w.result.value
                /\ d.fetches = <<>>
          /\ (Began(q) /\ SequentialRun' /\ w.op = "findTrips"
                 /\ w.result.kind = "ok" /\ w.coldStart /\ expiries = 0)
             => Key(w) \in DOMAIN redis]_vars

\* a findTrips call returned the empty array from the upstream, and the next
\* call returned the empty array from the cache
C20_Witness ==
    \E q \in DOMAIN calls \ {1} :
        /\ SequentialRun
        /\ calls[q - 1].op = "findTrips" /\ calls[q - 1].coldStart
        /\ calls[q - 1].result.kind = "ok" /\ calls[q - 1].result.value = <<>>
        /\ calls[q].op = "findTrips" /\ calls[q].cached # <<>>
        /\ calls[q].result.kind = "ok" /\ calls[q].result.value = <<>>
        /\ calls[q].fetches = <<>>

(***************************************************************************)
(* The helpers.                                                            *)
(***************************************************************************)
Applied(p, op) == calls[p].op = op /\ calls[p].pc = "done"

NoColon(str) == \A i \in 1..Len(str) : str[i] # ":"

\* C21 as stated: buildSearchCacheKey is injective over all pairs of strings:
\* no pair other than the arguments of an application gives the key it gave.
C21_KeyInjective ==
    \A p \in DOMAIN calls :
        Applied(p, "buildSearchCacheKey") =>
            \A o2 \in KeyStrings, d2 \in KeyStrings :
                <<o2, d2>> # calls[p].args =>
                    buildSearchCacheKey(o2, d2) # calls[p].result.value

\* C21: buildSearchCacheKey is injective over the pairs of strings whose
\* origin holds no ':' (the supported airport codes in any letter case among
\* them): no other such pair gives the key an application gave.
C21_KeyInjectiveForOriginsWithoutColon ==
    \A p \in DOMAIN calls :
        (Applied(p, "buildSearchCacheKey") /\ NoColon(calls[p].args[1])) =>
            \A o2 \in KeyStrings, d2 \in KeyStrings :
                (NoColon(o2) /\ <<o2, d2>> # calls[p].args) =>
                    buildSearchCacheKey(o2, d2) # calls[p].result.value

C21_Witness ==
    \E p \in DOMAIN calls :
        /\ Applied(p, "buildSearchCacheKey")
        /\ calls[p].args = <<<<"A">>, <<":", "A">>>>
        /\ calls[p].result.value =
               <<"t", "r", "i", "p", "s", ":", "A", ":", ":", "A">>

IsDigit(ch) == ch \in {"0", "1", "2", "3", "4", "5", "6", "7", "8", "9"}

DigitValue(ch) == CHOOSE n \in 0..9 : Digit(n) = ch

RECURSIVE DecimalValue(_)
DecimalValue(str) ==
    IF str = <<>> THEN 0
    ELSE 10 * DecimalValue(SubSeq(str, 1, Len(str) - 1)) + DigitValue(str[Len(str)])

\* str is the decimal numeral of n, without leading zeros
IsDecimalOf(str, n) ==
    /\ str # <<>>
    /\ \A i \in 1..Len(str) : IsDigit(str[i])
    /\ Len(str) > 1 => str[1] # "0"
    /\ DecimalValue(str) = n

\* C22: the search key is "trips:", the origin, ":" and the destination, each as
\* given (so 'ATL','PEK' gives trips:ATL:PEK and 'atl','pek' gives
\* trips:atl:pek); the list key is "trips:saved:", the decimal limit, ":" and
\* the decimal offset; the invalidation pattern is trips:saved*.
C22_KeysBitExact ==
    \A p \in DOMAIN calls :
        LET v == calls[p].result.value
            a == calls[p].args
        IN  /\ Applied(p, "buildSearchCacheKey") =>
                /\ Len(v) = 7 + Len(a[1]) + Len(a[2])
                /\ SubSeq(v, 1, 6) = <<"t", "r", "i", "p", "s", ":">>
                /\ SubSeq(v, 7, 6 + Len(a[1])) = a[1]
                /\ v[7 + Len(a[1])] = ":"
                /\ SubSeq(v, 8 + Len(a[1]), Len(v)) = a[2]
                /\ a = <<ATL, PEK>> =>
                       v = <<"t", "r", "i", "p", "s", ":", "A", "T", "L", ":",
                             "P", "E", "K">>
                /\ a = <<<<"a", "t", "l">>, <<"p", "e", "k">>>> =>
                       v = <<"t", "r", "i", "p", "s", ":", "a", "t", "l", ":",
                             "p", "e", "k">>
            /\ Applied(p, "listCacheKey") =>
                /\ SubSeq(v, 1, 12) =
                       <<"t", "r", "i", "p", "s", ":", "s", "a", "v", "e", "d", ":">>
                /\ \E k \in 14..(Len(v) - 1) :
                       /\ v[k] = ":"
                       /\ IsDecimalOf(SubSeq(v, 13, k - 1), a[1])
                       /\ IsDecimalOf(SubSeq(v, k + 1, Len(v)), a[2])
                /\ a = <<20, 0>> =>
                       v = <<"t", "r", "i", "p", "s", ":", "s", "a", "v", "e", "d",
                             ":", "2", "0", ":", "0">>
            /\ Applied(p, "invalidationPattern") =>
                v = <<"t", "r", "i", "p", "s", ":", "s", "a", "v", "e", "d", "*">>

C22_Witness ==
    \E p \in DOMAIN calls :
        /\ Applied(p, "buildSearchCacheKey")
        /\ calls[p].args = <<<<"a", "t", "l">>, <<"p", "e", "k">>>>
        /\ calls[p].result.value =
               <<"t", "r", "i", "p", "s", ":", "a", "t", "l", ":", "p", "e", "k">>

\* the two strings are equal but for the case of their letters
SameButCase(s, t) ==
    /\ Len(s) = Len(t)
    /\ \A i \in 1..Len(s) :
           \/ s[i] = t[i]
           \/ \E j \in 1..26 : {s[i], t[i]} = {LowerLetters[j], UpperLetters[j]}

\* C23: isSupportedAirport answers (it never throws) true for a code of the
\* allow-list spelled in any letter case, and false for every other string,
\* the empty one and those without letters included.
C23_SupportedIffOnAllowList ==
    \A p \in DOMAIN calls :
        Applied(p, "isSupportedAirport") =>
            /\ calls[p].result.kind = "ok"
            /\ calls[p].result.value \in BOOLEAN
            /\ calls[p].result.value <=>
                   \E code \in SUPPORTED_AIRPORTS :
                       SameButCase(calls[p].args[1], code)

C23_Witness ==
    \E p \in DOMAIN calls :
        /\ Applied(p, "isSupportedAirport")
        /\ calls[p].args = <<<<"l", "a", "X">>>>
        /\ calls[p].result.value = TRUE

(***************************************************************************)
(* getTrips.                                                               *)
(***************************************************************************)
\* the supported codes a string spells in some letter case
CodesSpelled(str) == {code \in SUPPORTED_AIRPORTS : SameButCase(str, code)}

\* the search key of the capital spelling of the arguments
CapitalKey(args) ==
    LET o == CHOOSE code \in CodesSpelled(args[1]) : TRUE
        d == CHOOSE code \in CodesSpelled(args[2]) : TRUE
    IN  <<"t", "r", "i", "p", "s", ":">> \o o \o <<":">> \o d

GetTripsStep(p) == calls'[p] # calls[p] /\ calls'[p].op = "getTrips"

\* C24: whether getTrips accepts its arguments depends on their spelling up to
\* letter case alone, and an accepted call reads and writes the cache entry of
\* the capital spelling: two calls that differ in letter case only get the
\* same validation outcome and use the same entry.
C24_CaseInsensitiveValidationAndKey ==
    [][\A p \in DOMAIN calls :
          GetTripsStep(p) =>
              LET a == calls'[p].args
                  accepted == CodesSpelled(a[1]) # {} /\ CodesSpelled(a[2]) # {}
                  k == CapitalKey(a)
              IN  /\ Began(p) =>
                         (calls'[p].result.code = "UNSUPPORTED_AIRPORT" <=> ~accepted)
                  /\ (Began(p) /\ accepted) =>
                         \/ calls'[p].cacheFail = <<"get">>
                         \/ /\ k \in DOMAIN redis
                            /\ calls'[p].cached = <<redis[k].value>>
                         \/ /\ k \notin DOMAIN redis
                            /\ calls'[p].coldStart
                            /\ calls'[p].cached = <<>>
                  /\ calls'[p].sets > calls[p].sets =>
                         /\ k \in DOMAIN redis'
                         /\ \A j \in (DOMAIN redis \cup DOMAIN redis') \ {k} :
                                /\ j \in DOMAIN redis \cap DOMAIN redis'
                                /\ redis'[j] = redis[j]]_vars

C24_Witness ==
    \E p \in DOMAIN calls, q \in DOMAIN calls :
        /\ calls[p].op = "getTrips" /\ calls[q].op = "getTrips"
        /\ calls[p].args = <<ATL, PEK, "cheapest">>
        /\ calls[q].args = <<<<"a", "T", "l">>, <<"p", "e", "k">>, "cheapest">>
        /\ calls[p].coldStart /\ calls[p].sets = 1 /\ calls[p].result.kind = "ok"
        /\ calls[q].cached # <<>> /\ calls[q].result.kind = "ok"
        /\ calls[q].result.value = calls[p].result.value
        /\ calls[q].result.value # <<>>

\* C25: a getTrips call whose origin or destination spells no supported code
\* ends in its first step with UNSUPPORTED_AIRPORT (400): the cache is neither
\* read nor written and the upstream is not called.
C25_UnsupportedFailsBeforeAnyIO ==
    [][\A p \in DOMAIN calls :
          (/\ Began(p)
           /\ calls'[p].op = "getTrips"
           /\ \/ CodesSpelled(calls'[p].args[1]) = {}
              \/ CodesSpelled(calls'[p].args[2]) = {}) =>
              /\ calls'[p].pc = "done"
              /\ calls'[p].result =
                     [kind |-> "error", value |-> <<>>,
                      code |-> "UNSUPPORTED_AIRPORT", status |-> 400]
              /\ redis' = redis
              /\ faults' = faults
              /\ calls'[p].ft = Pending
              /\ ~calls'[p].coldStart
              /\ calls'[p].cached = <<>>
              /\ calls'[p].cacheFail = <<>>
              /\ calls'[p].fetches = <<>>
              /\ DOMAIN calls'[p].url = {}
              /\ calls'[p].sets = 0]_vars

C25_Witness ==
    \E p \in DOMAIN calls, q \in DOMAIN calls :
        /\ calls[p].op = "getTrips" /\ calls[q].op = "getTrips"
        /\ calls[p].args = <<<<"X", "X", "X">>, PEK>>
        /\ calls[q].args = <<ATL, <<"y", "y", "y">>, "cheapest">>
        /\ calls[p].result.code = "UNSUPPORTED_AIRPORT"
        /\ calls[q].result.code = "UNSUPPORTED_AIRPORT"
        /\ calls[q].result.status = 400

Occurrences(arr, t) == Cardinality({i \in 1..Len(arr) : arr[i] = t})

IsPermutation(a, b) ==
    /\ Len(a) = Len(b)
    /\ \A i \in 1..Len(a) : Occurrences(a, a[i]) = Occurrences(b, a[i])

\* non-decreasing in the first field, and in the second among equals
OrderedBy(arr, first, second) ==
    \A i \in 1..(Len(arr) - 1) :
        /\ arr[i][first] <= arr[i + 1][first]
        /\ arr[i][first] = arr[i + 1][first] => arr[i][second] <= arr[i + 1][second]

\* C26: what a getTrips call returns is a permutation of what its findTrips
\* gave, in non-decreasing duration with ties in non-decreasing cost when the
\* sort order is 'fastest' or absent, and in non-decreasing cost with ties in
\* non-decreasing duration when it is 'cheapest'.
C26_SortedPermutation ==
    \A p \in DOMAIN calls :
        (calls[p].op = "getTrips" /\ calls[p].result.kind = "ok") =>
            LET a == calls[p].args
                got == calls[p].result.value
            IN  /\ IsPermutation(got, calls[p].ft.value)
                /\ (Len(a) < 3 \/ a[3] = "fastest") =>
                       OrderedBy(got, "duration", "cost")
                /\ (Len(a) >= 3 /\ a[3] = "cheapest") =>
                       OrderedBy(got, "cost", "duration")

C26_Witness ==
    \E p \in DOMAIN calls, q \in DOMAIN calls :
        /\ calls[p].op = "getTrips" /\ calls[q].op = "getTrips"
        /\ calls[p].args = <<ATL, PEK>>
        /\ calls[p].ft.value = <<T3, T2, T1>>
        /\ calls[p].result.value = <<T1, T2, T3>>
        /\ calls[q].args = <<ATL, PEK, "cheapest">>
        /\ calls[q].ft.value = <<T3, T2, T1>>
        /\ calls[q].result.value = <<T2, T1, T3>>

(***************************************************************************)
(* Configuration and error policy.                                         *)
(***************************************************************************)
\* C27 as stated: no findTrips call runs with a configured number of attempts
\* that is zero or negative.
C27_NoLookupWithoutAttempts ==
    \A p \in DOMAIN calls : calls[p].op = "findTrips" => tripsMaxRetry >= 1

\* C28 as stated: saveTrip, listTrips and deleteTrip end with DB_ERROR only in
\* the step of a Trip table operation (create, findMany, delete) that failed.
C28_DbErrorOnlyFromStore ==
    [][\A p \in DOMAIN calls :
          (/\ Returned(p)
           /\ calls'[p].op \in {"saveTrip", "listTrips", "deleteTrip"}
           /\ calls'[p].result.code = "DB_ERROR") =>
              /\ calls[p].pc \in {"sv_create", "ls_findMany", "dl_delete"}
              /\ calls'[p].cacheFail = calls[p].cacheFail]_vars

\* the call ended with an existence error
FailedFast(c) ==
    /\ c.pc = "done"
    /\ \/ c.op = "saveTrip" /\ c.result.code \in {"TRIP_NOT_FOUND", "TRIP_ALREADY_SAVED"}
       \/ c.op = "deleteTrip" /\ c.result.code = "TRIP_NOT_FOUND"

\* C29 as stated: a saveTrip that ended with TRIP_NOT_FOUND or
\* TRIP_ALREADY_SAVED, or a deleteTrip that ended with TRIP_NOT_FOUND, has
\* written nothing: no row, no cache entry, no invalidation.
C29_FailFastWritesNothing ==
    \A p \in DOMAIN calls :
        FailedFast(calls[p]) =>
            /\ calls[p].committed = 0
            /\ calls[p].delArgs = {}
            /\ calls[p].sets = 0

\* the steps of saveTrip and deleteTrip up to the test for the stored row
BeforeWrite(c) ==
    c.pc \in {"idle", "ft_fetch", "ft_set", "ft_wait", "sv_findUnique"}

\* C29: a saveTrip that ends with TRIP_NOT_FOUND or TRIP_ALREADY_SAVED, or a
\* deleteTrip that ends with TRIP_NOT_FOUND, ends before its first write to
\* the Trip table, and none of its steps changes the table or a list-cache
\* entry; the only entry such a saveTrip may write is the search entry of its
\* origin and destination, on a lookup that missed; such a deleteTrip is one
\* step that changes nothing.
C29_FailFastLeavesStoreAndListCache ==
    [][\A p \in DOMAIN calls :
          (calls'[p] # calls[p] /\ calls'[p].op \in {"saveTrip", "deleteTrip"}) =>
              LET c == calls'[p]
                  k == <<"t", "r", "i", "p", "s", ":">> \o c.origin \o <<":">>
                           \o c.destination
              IN  /\ (Returned(p) /\ FailedFast(c)) =>
                         /\ BeforeWrite(calls[p])
                         /\ c.committed = 0
                         /\ ~c.enumerated
                         /\ c.delArgs = {}
                         /\ c.sets <= 1
                         /\ c.sets = 1 => c.coldStart
                         /\ c.op = "deleteTrip" => (Began(p) /\ c.sets = 0)
                  /\ BeforeWrite(calls[p]) =>
                         /\ db' = db
                         /\ commits' = commits
                         /\ \A j \in (DOMAIN redis \cup DOMAIN redis') \ {k} :
                                /\ j \in DOMAIN redis \cap DOMAIN redis'
                                /\ redis'[j] = redis[j]
                         /\ redis' # redis =>
                                /\ c.op = "saveTrip"
                                /\ calls[p].pc = "ft_set"
                                /\ c.sets = calls[p].sets + 1]_vars

\* a saveTrip that ended with TRIP_NOT_FOUND after its lookup missed and wrote
\* the search entry, with the page a listTrips had cached still there
C29_Witness ==
    \E p \in DOMAIN calls, q \in DOMAIN calls :
        /\ calls[p].op = "saveTrip" /\ calls[p].pc = "done"
        /\ calls[p].result.code = "TRIP_NOT_FOUND"
        /\ calls[p].coldStart /\ calls[p].sets = 1
        /\ buildSearchCacheKey(ATL, PEK) \in DOMAIN redis
        /\ calls[q].op = "listTrips" /\ calls[q].sets = 1
        /\ ListKey(calls[q]) \in DOMAIN redis

\* C30: every upstream URL carries sort_by=fastest and the capital codes,
\* whatever sort order the request asked for; a getTrips call that begins
\* when an earlier getTrips of the same route has stored its answer and the
\* entry is still there returns in that step without an upstream call or a
\* cache write, in the order of its own sort argument, with the very trips
\* the earlier call returned.
C30_SortNotCached ==
    [][\A q \in DOMAIN calls :
          /\ (calls'[q].op = "getTrips" /\ calls'[q].fetches # <<>>) =>
                 calls'[q].url =
                     [origin |-> CHOOSE code \in CodesSpelled(calls'[q].args[1]) : TRUE,
                      destination |-> CHOOSE code \in CodesSpelled(calls'[q].args[2]) : TRUE,
                      sort_by |-> "fastest"]
          /\ \A p \in DOMAIN calls \ {q} :
                 (/\ Began(q) /\ calls'[q].op = "getTrips"
                  /\ calls'[q].cacheFail = <<>>
                  /\ CodesSpelled(calls'[q].args[1]) # {}
                  /\ CodesSpelled(calls'[q].args[2]) # {}
                  /\ calls[p].op = "getTrips" /\ calls[p].result.kind = "ok"
                  /\ calls[p].sets = 1
                  /\ CapitalKey(calls[p].args) = CapitalKey(calls'[q].args)
                  /\ CapitalKey(calls[p].args) \in DOMAIN redis
                  /\ redis[CapitalKey(calls[p].args)].value =
                         JSONStringify(calls[p].ft.value)) =>
                     LET a == calls'[q].args
                         got == calls'[q].result.value
                     IN  /\ calls'[q].pc = "done"
                         /\ calls'[q].result.kind = "ok"
                         /\ calls'[q].fetches = <<>>
                         /\ DOMAIN calls'[q].url = {}
                         /\ calls'[q].sets = 0
                         /\ redis' = redis
                         /\ IsPermutation(got, calls[p].result.value)
                         /\ (Len(a) < 3 \/ a[3] = "fastest") =>
                                OrderedBy(got, "duration", "cost")
                         /\ (Len(a) >= 3 /\ a[3] = "cheapest") =>
                                OrderedBy(got, "cost", "duration")]_vars

\* a getTrips without sort order that fetched and stored <<T2, T1>>, and a
\* later getTrips by cheapest that got the same trips from the cache
C30_Witness ==
    \E p \in DOMAIN calls, q \in DOMAIN calls :
        /\ calls[p].op = "getTrips" /\ calls[p].args = <<ATL, PEK>>
        /\ calls[p].fetches = <<"ok">> /\ calls[p].sets = 1
        /\ calls[p].url.sort_by = "fastest"
        /\ calls[p].result.value = <<T1, T2>>
        /\ calls[q].op = "getTrips" /\ calls[q].args = <<ATL, PEK, "cheapest">>
        /\ ~calls[q].overlap
        /\ calls[q].cached = <<JSONStringify(<<T2, T1>>)>>
        /\ calls[q].fetches = <<>>
        /\ calls[q].result.value = <<T2, T1>>

(***************************************************************************)
(* Concurrent lookups.                                                     *)
(***************************************************************************)
\* the search key of the call's arguments
SearchKeyOf(c) ==
    <<"t", "r", "i", "p", "s", ":">> \o c.origin \o <<":">> \o c.destination

\* C31: lookups are not coalesced and the last write wins.  A findTrips call
\* whose cache write succeeds returns in that step and leaves under its key
\* the serialization of what it returns, whatever another call had written;
\* the keyspace changes by such a write or by an expiry only; hence, when the
\* second of two calls that both missed and both wrote returns, the entry is
\* the serialization of its result, the last one written.
C31_LastWriteWins ==
    [][/\ \A p \in DOMAIN calls :
            (calls'[p].op = "findTrips" /\ calls'[p].sets > calls[p].sets) =>
                /\ Returned(p)
                /\ calls'[p].result.kind = "ok"
                /\ SearchKeyOf(calls'[p]) \in DOMAIN redis'
                /\ redis'[SearchKeyOf(calls'[p])].value =
                       JSONStringify(calls'[p].result.value)
                /\ \A q \in DOMAIN calls \ {p} :
                       (/\ calls[q].op = "findTrips" /\ calls[q].pc = "done"
                        /\ calls[q].result.kind = "ok" /\ calls[q].sets = 1
                        /\ SearchKeyOf(calls[q]) = SearchKeyOf(calls'[p])
                        /\ calls[q].result.value # calls'[p].result.value) =>
                           redis'[SearchKeyOf(calls'[p])].value #
                               JSONStringify(calls[q].result.value)
       /\ redis' # redis =>
              \/ expiries' = expiries + 1
              \/ \E p \in DOMAIN calls : calls'[p].sets = calls[p].sets + 1]_vars

\* two overlapping calls that both missed, both fetched and both wrote; the
\* entry is the answer of the call that began first and wrote last
C31_Witness ==
    /\ calls[1].op = "findTrips" /\ calls[2].op = "findTrips"
    /\ calls[2].overlap
    /\ calls[1].coldStart /\ calls[2].coldStart
    /\ calls[1].fetches = <<"ok">> /\ calls[2].fetches = <<"ok">>
    /\ calls[1].sets = 1 /\ calls[2].sets = 1
    /\ calls[1].result.value = <<T2, T1>>
    /\ calls[2].result.value = <<T2>>
    /\ expiries = 0
    /\ redis[buildSearchCacheKey(ATL, PEK)].value = JSONStringify(<<T2, T1>>)

ManagerStep(p) ==
    calls'[p] # calls[p] /\ calls'[p].op \in {"saveTrip", "deleteTrip"}

\* C33: saveTrip and deleteTrip enumerate and delete list-cache keys only in
\* steps that follow their committed create or delete; a create or delete
\* that is rejected ends the call in that step with DB_ERROR (500), the table
\* and the cache as they were, no key enumerated, none deleted.
C33_InvalidationAfterCommit ==
    [][\A p \in DOMAIN calls :
          ManagerStep(p) =>
              LET c == calls[p]
                  d == calls'[p]
              IN  /\ (c.pc \in {"sv_create", "dl_delete"} /\ d.committed = 0) =>
                         /\ d.pc = "done"
                         /\ d.result = [kind |-> "error", value |-> <<>>,
                                        code |-> "DB_ERROR", status |-> 500]
                         /\ db' = db /\ redis' = redis
                         /\ ~d.enumerated
                         /\ d.delArgs = {}
                         /\ d.cacheFail = c.cacheFail
                  /\ (c.pc \in {"sv_create", "dl_delete"} /\ d.committed > 0) =>
                         /\ d.pc \in {"sv_keys", "dl_keys"}
                         /\ redis' = redis
                         /\ ~d.enumerated
                         /\ d.op = "saveTrip" =>
                                (~Persisted(d.trip[1].id)
                                 /\ \E row \in db' : row.id = d.trip[1].id)
                         /\ d.op = "deleteTrip" =>
                                (Persisted(d.id) /\ \A row \in db' : row.id # d.id)
                  /\ (\/ d.enumerated # c.enumerated
                      \/ d.delArgs # c.delArgs
                      \/ /\ Len(d.cacheFail) > Len(c.cacheFail)
                         /\ d.cacheFail[Len(d.cacheFail)] \in {"keys", "del"}
                      \/ \E k \in DOMAIN redis \ DOMAIN redis' : IsListKey(k)) =>
                         /\ c.committed > 0
                         /\ c.pc \in {"sv_keys", "sv_del", "dl_keys", "dl_del"}
                         /\ db' = db]_vars

\* a saveTrip whose create was rejected, ended with DB_ERROR, the cached
\* pages still there
C33_Witness ==
    \E p \in DOMAIN calls :
        /\ calls[p].op = "saveTrip" /\ calls[p].trip # <<>>
        /\ calls[p].result.code = "DB_ERROR" /\ calls[p].cacheFail = <<>>
        /\ calls[p].committed = 0
        /\ ~calls[p].enumerated
        /\ ListCacheKey(20, 0) \in DOMAIN redis
        /\ ListCacheKey(1, 1) \in DOMAIN redis

(***************************************************************************)
(* The rows of the Trip table.                                             *)
(***************************************************************************)
\* a step that changes the table is the create of one saveTrip, which adds the
\* row of an id that had none, or the delete of one deleteTrip, which removes
\* the row of its id; every other row stays as it is
StoreTransition ==
    db' # db =>
        \E p \in DOMAIN calls :
            /\ calls'[p].committed > 0 /\ calls[p].committed = 0
            /\ \/ /\ calls[p].op = "saveTrip" /\ calls[p].pc = "sv_create"
                  /\ ~Persisted(calls[p].trip[1].id)
                  /\ \E row \in db' : /\ row.id = calls[p].trip[1].id
                                       /\ db' = db \cup {row}
               \/ /\ calls[p].op = "deleteTrip" /\ calls[p].pc = "dl_delete"
                  /\ \E row \in db : /\ row.id = calls[p].id
                                      /\ db' = db \ {row}
                  /\ \A row \in db' : row.id # calls[p].id

\* C34 as stated: the table changes only by the insert of a saveTrip and the
\* delete of a deleteTrip, one row of one id at a time with every other row
\* untouched, and the saveTrip or deleteTrip that changed it succeeds.
C34_TransitionsBySuccessfulCalls ==
    [][/\ StoreTransition
       /\ \A p \in DOMAIN calls :
              (Returned(p) /\ calls'[p].committed > 0
                           /\ calls'[p].op \in {"saveTrip", "deleteTrip"}) =>
                  calls'[p].result.kind = "ok"]_vars

\* C34, the part about the table alone: rows appear by the create of a
\* saveTrip and disappear by the delete of a deleteTrip, and no row changes.
C34_RowsChangeByCreateAndDelete == [][StoreTransition]_vars

TripFields == {"id", "origin", "destination", "cost", "duration", "type", "display_name"}

\* C35: the row a saveTrip inserts, which is what it returns when it succeeds,
\* has the id, origin, destination, cost, duration, type and display_name of
\* the first element of its lookup result whose id is the id asked for; the
\* origin and destination the caller passed are not written.
C35_RowFromLookupResult ==
    [][\A p \in DOMAIN calls :
          (/\ calls'[p].op = "saveTrip"
           /\ calls[p].committed = 0 /\ calls'[p].committed > 0) =>
              LET found == calls[p].ft.value
                  idx == {i \in 1..Len(found) : found[i].id = calls[p].id}
              IN  /\ calls[p].ft.kind = "ok"
                  /\ idx # {}
                  /\ \E row \in db' \ db :
                         /\ db' = db \cup {row}
                         /\ calls'[p].data = <<row>>
                         /\ \A f \in TripFields :
                                row[f] = found[CHOOSE i \in idx : \A j \in idx : i <= j][f]
                         /\ DOMAIN row = TripFields \cup {"created_at"}
                         /\ \A i \in idx :
                                found[i].destination # calls[p].destination =>
                                    row.destination # calls[p].destination
       /\ \A q \in DOMAIN calls :
             (Returned(q) /\ calls'[q].op = "saveTrip"
                          /\ calls'[q].result.kind = "ok") =>
                 /\ calls'[q].committed > 0
                 /\ calls'[q].result.value = calls[q].data]_vars

\* a saveTrip('t1', ATL, PEK) that returned the row of T1, whose destination
\* is the one of the lookup result and not the caller's
C35_Witness ==
    \E p \in DOMAIN calls :
        /\ calls[p].op = "saveTrip" /\ calls[p].result.kind = "ok"
        /\ calls[p].destination = PEK
        /\ calls[p].result.value[1].destination = <<"L", "A", "X">>
        /\ calls[p].result.value[1].cost = 100
        /\ calls[p].result.value[1] \in db

\* the entry under key k is not the page the Trip table holds now
StaleEntry(k) ==
    \E a \in ListArgs :
        /\ k = ListCacheKey(ListParams(a)[1], ListParams(a)[2])
        /\ k \in DOMAIN redis
        /\ redis[k].value # JSONStringify(FindMany(db, ListParams(a)[1],
                                                   ListParams(a)[2]))

\* neither the call p nor any saveTrip or deleteTrip began while another call
\* was in flight: no insert or delete ran between the first and the last step
\* of p
NoConcurrentMutation(p) ==
    /\ ~calls[p].overlap
    /\ \A q \in DOMAIN calls :
          calls[q].op \in {"saveTrip", "deleteTrip"} => ~calls[q].overlap

\* C36: a stale list-cache entry is gone when its TTL expires, and a
\* listTrips that then misses the key and runs with no insert or delete during
\* it (and no failure) ends by returning the page the Trip table holds at that
\* moment, with the JSON text of that page under its key for cacheTTL seconds.
C36_StaleEntryHeals ==
    [][/\ \A k \in DOMAIN redis :
             (StaleEntry(k) /\ expiries' = expiries + 1 /\ k \notin DOMAIN redis')
                => /\ DOMAIN redis' = DOMAIN redis \ {k}
                   /\ db' = db
       /\ \A p \in DOMAIN calls :
             (/\ Returned(p) /\ calls'[p].op = "listTrips"
              /\ calls'[p].coldStart
              /\ NoConcurrentMutation(p)' /\ NoFailure') =>
                 LET page == FindMany(db', calls'[p].limit, calls'[p].offset)
                     k == ListCacheKey(calls'[p].limit, calls'[p].offset)
                 IN  /\ calls'[p].result.kind = "ok"
                     /\ calls'[p].result.value = page
                     /\ k \in DOMAIN redis'
                     /\ redis'[k].value = JSONStringify(page)
                     /\ redis'[k].ex = cacheTTL]_vars

\* the default page was stale, expired, and a listTrips alone has returned
\* and cached the page of the table, the other page being stale still
C36_Witness ==
    /\ expiries = 1
    /\ \E p \in DOMAIN calls :
          /\ calls[p].op = "listTrips" /\ calls[p].result.kind = "ok"
          /\ calls[p].coldStart /\ NoConcurrentMutation(p)
          /\ calls[p].result.value = FindMany(db, calls[p].limit, calls[p].offset)
          /\ Len(calls[p].result.value) = 2
          /\ ListCacheKey(calls[p].limit, calls[p].offset) \in DOMAIN redis
          /\ ~StaleEntry(ListCacheKey(calls[p].limit, calls[p].offset))
          /\ \E k \in DOMAIN redis : StaleEntry(k)

\* C37: every findTrips call that has begun is over at last, with a return or
\* an error, and at no moment has a call made more than tripsMaxRetry upstream
\* calls or more than tripsMaxRetry - 1 backoff waits (none at all where no
\* attempt is configured).
C37_TerminatesWithinAttempts ==
    /\ \A p \in 1..FairCalls :
          (calls[p].pc # "idle") ~>
              (calls[p].pc = "done" /\ calls[p].result.kind \in {"ok", "error"})
    /\ [](\A p \in DOMAIN calls :
             /\ Len(calls[p].fetches) <= tripsMaxRetry
             /\ Len(calls[p].waits)
                   <= (IF tripsMaxRetry >= 1 THEN tripsMaxRetry - 1 ELSE 0)
             /\ calls[p].attempt <= tripsMaxRetry)

\* a call that is over after as many upstream calls and waits as the bound
\* allows
C37_Witness ==
    \E p \in DOMAIN calls :
        /\ tripsMaxRetry = MaxRetryCfg
        /\ calls[p].op = "findTrips" /\ calls[p].pc = "done"
        /\ Len(calls[p].fetches) = tripsMaxRetry
        /\ Len(calls[p].waits) = tripsMaxRetry - 1
        /\ calls[p].result.kind = "ok"

\* C38 as stated: of two deleteTrip calls of one stored id that overlapped and
\* are both over, no cache, store or upstream operation having failed, one
\* has succeeded and the other has ended with TRIP_NOT_FOUND (404).
C38_OneDeletesOtherNotFound ==
    \A p, q \in DOMAIN calls :
        (/\ p < q /\ calls[q].overlap
         /\ calls[p].op = "deleteTrip" /\ calls[q].op = "deleteTrip"
         /\ calls[p].id = calls[q].id
         /\ calls[p].pc = "done" /\ calls[q].pc = "done"
         /\ (calls[p].committed > 0 \/ calls[q].committed > 0)
         /\ NoFailure)
        => \E won \in {p, q} :
              /\ calls[won].result.kind = "ok"
              /\ \A lost \in {p, q} \ {won} :
                    /\ calls[lost].result.kind = "error"
                    /\ calls[lost].result.code = "TRIP_NOT_FOUND"
                    /\ calls[lost].result.status = 404

\* C39: when the redis.keys of a saveTrip or deleteTrip answers no key, the
\* call ends in that step successfully (saveTrip with the row it inserted):
\* redis.del is not invoked, and the cache and the table are as they were.
C39_NoKeysNoDel ==
    [][\A p \in DOMAIN calls :
          (/\ calls[p].pc \in {"sv_keys", "dl_keys"}
           /\ calls'[p].pc # calls[p].pc
           /\ faults' = faults
           /\ InvalidationKeys(redis) = {}) =>
              /\ calls'[p].pc = "done"
              /\ calls'[p].result.kind = "ok"
              /\ calls'[p].op = "saveTrip" => calls'[p].result.value = calls[p].data
              /\ calls'[p].enumerated /\ calls'[p].keys = {}
              /\ calls'[p].delArgs = {}
              /\ calls'[p].cacheFail = calls[p].cacheFail
              /\ redis' = redis /\ db' = db]_vars

\* a saveTrip and then a deleteTrip that both found no list page cached and
\* returned without a redis.del
C39_Witness ==
    \E p, q \in DOMAIN calls :
        /\ calls[p].op = "saveTrip" /\ calls[q].op = "deleteTrip"
        /\ calls[p].result.kind = "ok" /\ calls[q].result.kind = "ok"
        /\ calls[p].committed > 0 /\ calls[q].committed > calls[p].committed
        /\ calls[p].enumerated /\ calls[q].enumerated
        /\ calls[p].keys = {} /\ calls[q].keys = {}
        /\ calls[p].delArgs = {} /\ calls[q].delArgs = {}
        /\ redis # <<>>

====
